---- MODULE Spec2Model ----
(***************************************************************************)
(* The record scanner of the Mol2 parsers (Mol2Parser and CCDCMol2Parser). *)
(* A line is a sequence of one-character strings, so that trim, the tests  *)
(* on the first character, the split on white space and parseInt and       *)
(* parseFloat are computed as the code computes them.                      *)
(***************************************************************************)
EXTENDS Integers, Sequences, FiniteSets, TLC

VARIABLES
  opt,    \* the parser: which class it is and its firstModelOnly / asTrajectory options
  p,      \* the local variables of _parse that _parseChunkOfLines closes over
  s,      \* this.structure: title, id, frames, atomStore, bondStore, unitcell
  lines,  \* the chunk of lines the streamer handed to the callback last
  doc,    \* every line delivered so far, in order
  consumed, \* how many lines have been read
  pc,     \* where _parse is: "scan", "done", or "thrown" after an exception
  jsonData, \* what the streamer holds: the text, and for CCDCMol2Parser the envelope around it
  calls,  \* the collaborators _parse has called after the scan, in order
  build,  \* the local variables of _buildUnitcellAssembly
  structures \* the structures of the parses that ran before this one, in order

vars == <<opt, p, s, lines, doc, consumed, pc, jsonData, calls, build, structures>>

-----------------------------------------------------------------------------
(* Values of the language *)

\* The result of parseInt / parseFloat on a token that is no number.
NaN == -1000000

\* A missing number (an object property never assigned, a table miss).
undefined == -1000001

\* A missing array element (ls[k] beyond the fields of the line).
undefinedToken == <<>>

\* A missing string.
undefinedString == "undefined"

IsNumber(v) == v # NaN /\ v # undefined

\* Arithmetic on numbers where NaN is absorbing.
Plus(a, b) == IF a = NaN \/ b = NaN THEN NaN ELSE a + b

Minus(a, b) == IF a = NaN \/ b = NaN THEN NaN ELSE a - b

Times(a, b) == IF a = NaN \/ b = NaN THEN NaN ELSE a * b

-----------------------------------------------------------------------------
(* Text *)

\* reWhitespace = /\s+/ and the characters String.prototype.trim removes.
reWhitespace(c) == c = " " \/ c = "\t"

RECURSIVE trimStart(_)
trimStart(str) ==
  IF str # <<>> /\ reWhitespace(Head(str)) THEN trimStart(Tail(str)) ELSE str

RECURSIVE trimEnd(_)
trimEnd(str) ==
  IF str # <<>> /\ reWhitespace(str[Len(str)])
  THEN trimEnd(SubSeq(str, 1, Len(str) - 1))
  ELSE str

trim(str) == trimEnd(trimStart(str))

\* str.split(reWhitespace): the pieces between maximal runs of white space.
RECURSIVE splitWhitespace(_, _)
splitWhitespace(str, piece) ==
  IF str = <<>> THEN <<piece>>
  ELSE IF reWhitespace(Head(str))
       THEN <<piece>> \o splitWhitespace(trimStart(Tail(str)), <<>>)
       ELSE splitWhitespace(Tail(str), Append(piece, Head(str)))

split(str) == splitWhitespace(str, <<>>)

\* ls[k] of the code (k counts from 0): undefined beyond the last field.
Field(ls, k) == IF k + 1 <= Len(ls) THEN ls[k + 1] ELSE undefinedToken

\* str.split('.')[0]: the characters before the first period.
RECURSIVE splitDotFirst(_)
splitDotFirst(str) ==
  IF str = <<>> \/ Head(str) = "." THEN <<>>
  ELSE <<Head(str)>> \o splitDotFirst(Tail(str))

Digits == {"0", "1", "2", "3", "4", "5", "6", "7", "8", "9"}

DigitValue(c) ==
  CASE c = "0" -> 0 [] c = "1" -> 1 [] c = "2" -> 2 [] c = "3" -> 3 [] c = "4" -> 4
    [] c = "5" -> 5 [] c = "6" -> 6 [] c = "7" -> 7 [] c = "8" -> 8 [] c = "9" -> 9

\* The longest prefix of str made of decimal digits.
RECURSIVE digitPrefix(_)
digitPrefix(str) ==
  IF str # <<>> /\ Head(str) \in Digits
  THEN <<Head(str)>> \o digitPrefix(Tail(str))
  ELSE <<>>

RECURSIVE digitsValue(_, _)
digitsValue(ds, acc) ==
  IF ds = <<>> THEN acc ELSE digitsValue(Tail(ds), acc * 10 + DigitValue(Head(ds)))

\* The token without its sign, and the sign.
Unsigned(tok) == IF tok # <<>> /\ Head(tok) \in {"+", "-"} THEN Tail(tok) ELSE tok

Sign(tok) == IF tok # <<>> /\ Head(tok) = "-" THEN -1 ELSE 1

\* parseInt(tok): an optional sign and the leading decimal digits; NaN when
\* there is none (also for a missing field, parseInt(undefined)).
parseInt(tok) ==
  LET ds == digitPrefix(Unsigned(tok))
  IN  IF ds = <<>> THEN NaN ELSE Sign(tok) * digitsValue(ds, 0)

\* parseFloat(tok): an optional sign, digits, and an optional period and
\* digits; NaN when there is no digit. The value is kept in tenths (the
\* lines of this model carry at most one decimal place).
parseFloat(tok) ==
  LET u    == Unsigned(tok)
      ds   == digitPrefix(u)
      rest == SubSeq(u, Len(ds) + 1, Len(u))
      fs   == IF rest # <<>> /\ Head(rest) = "." THEN digitPrefix(Tail(rest)) ELSE <<>>
  IN  IF ds = <<>> /\ fs = <<>> THEN NaN
      ELSE Sign(tok) * (digitsValue(ds, 0) * 10
                        + (IF fs = <<>> THEN 0 ELSE DigitValue(Head(fs))))

\* A number n of the program as parseFloat delivers it (in tenths).
Num(n) == n * 10

IsInteger(v) == IsNumber(v) /\ v % 10 = 0

-----------------------------------------------------------------------------
(* Tables of the parsers *)

\* bondTypes[tok]: undefined for a token the table does not hold.
bondTypes(tok) ==
  CASE tok = <<"1">> -> 1
    [] tok = <<"2">> -> 2
    [] tok = <<"3">> -> 3
    [] tok = <<"a", "m">> -> 1
    [] tok = <<"a", "r">> -> 1
    [] tok = <<"d", "u">> -> 1
    [] tok = <<"u", "n">> -> 1
    [] tok = <<"n", "c">> -> 0
    [] OTHER -> undefined

spaceGroupLookup == <<
  <<"P 1", "", "", "", "", "">>,
  <<"P -1", "", "", "", "", "">>,
  <<"P 2", "", "P 1 1 2", "", "", "">>,
  <<"P 21", "", "P 1 1 21", "", "", "">>,
  <<"C 2", "A 2", "B 1 1 2", "A 1 1 2", "", "">>,
  <<"P m", "", "P 1 1 m", "", "", "">>,
  <<"P c", "P a", "P 1 1 b", "P 1 1 a", "", "">>,
  <<"C m", "A m", "B 1 1 m", "A 1 1 m", "", "">>,
  <<"C c", "A a", "B 1 1 b", "A 1 1 a", "", "">>,
  <<"P 2/m", "", "P 1 1 2/m", "", "", "">>,
  <<"P 21/m", "", "P 1 1 21/m", "", "", "">>,
  <<"C 2/m", "A 2/m", "B 1 1 2/m", "A 1 1 2/m", "", "">>,
  <<"P 2/c", "P 2/a", "P 1 1 2/b", "P 1 1 2/a", "", "">>,
  <<"P 21/c", "P 21/a", "P 1 1 21/b", "P 1 1 21/a", "", "">>,
  <<"C 2/c", "A 2/a", "B 1 1 2/b", "A 1 1 2/a", "", "">>,
  <<"P 2 2 2", "", "", "", "", "">>,
  <<"P 2 2 21", "P 21 2 2", "P 2 21 2", "", "", "">>,
  <<"P 21 21 2", "P 2 21 21", "P 21 2 21", "", "", "">>,
  <<"P 21 21 21", "", "", "", "", "">>,
  <<"C 2 2 21", "A 21 2 2", "B 2 21 2", "", "", "">>,
  <<"C 2 2 2", "A 2 2 2", "B 2 2 2", "", "", "">>,
  <<"F 2 2 2", "", "", "", "", "">>,
  <<"I 2 2 2", "", "", "", "", "">>,
  <<"I 21 21 21", "", "", "", "", "">>,
  <<"P m m 2", "P 2 m m", "P m 2 m", "", "", "">>,
  <<"P m c 21", "P 21 m a", "P b 21 m", "P m 21 b", "P c m 21", "P 21 a m">>,
  <<"P c c 2", "P 2 a a", "P b 2 b", "", "", "">>,
  <<"P m a 2", "P 2 m b", "P c 2 m", "P m 2 a", "P b m 2", "P 2 c m">>,
  <<"P c a 21", "P 21 a b", "P c 21 b", "P b 21 a", "P b c 21", "P 21 c a">>,
  <<"P n c 2", "P 2 n a", "P b 2 n", "P n 2 b", "P c n 2", "P 2 a n">>,
  <<"P m n 21", "P 21 m n", "P n 21 m", "P m 21 n", "P n m 21", "P 21 n m">>,
  <<"P b a 2", "P 2 c b", "P c 2 a", "", "", "">>,
  <<"P n a 21", "P 21 n b", "P c 21 n", "P n 21 a", "P b n 21", "P 21 c n">>,
  <<"P n n 2", "P 2 n n", "P n 2 n", "", "", "">>,
  <<"C m m 2", "A 2 m m", "B m 2 m", "", "", "">>,
  <<"C m c 21", "A 21 m a", "B b 21 m", "B m 21 b", "C c m 21", "A 21 a m">>,
  <<"C c c 2", "A 2 a a", "B b 2 b", "", "", "">>,
  <<"A m m 2", "B 2 m m", "C m 2 m", "A m 2 m", "B m m 2", "C 2 m m">>,
  <<"A b m 2", "B 2 c m", "C m 2 a", "A c 2 m", "B m a 2", "C 2 m b">>,
  <<"A m a 2", "B 2 m b", "C c 2 m", "A m 2 a", "B b m 2", "C 2 c m">>,
  <<"A b a 2", "B 2 c b", "C c 2 a", "A c 2 a", "B b a 2", "C 2 c b">>,
  <<"F m m 2", "F 2 m m", "F m 2 m", "", "", "">>,
  <<"F d d 2", "F 2 d d", "F d 2 d", "", "", "">>,
  <<"I m m 2", "I 2 m m", "I m 2 m", "", "", "">>,
  <<"I b a 2", "I 2 c b", "I c 2 a", "", "", "">>,
  <<"I m a 2", "I 2 m b", "I c 2 m", "I m 2 a", "I b m 2", "I 2 c m">>,
  <<"P m m m", "", "", "", "", "">>,
  <<"P n n n", "", "", "", "", "">>,
  <<"P c c m", "P m a a", "P b m b", "", "", "">>,
  <<"P b a n", "P n c b", "P c n a", "", "", "">>,
  <<"P m m a", "P b m m", "P m c m", "P m a m", "P m m b", "P c m m">>,
  <<"P n n a", "P b n n", "P n c n", "P n a n", "P n n b", "P c n n">>,
  <<"P m n a", "P b m n", "P n c m", "P m a n", "P n m b", "P c n m">>,
  <<"P c c a", "P b a a", "P b c b", "P b a b", "P c c b", "P c a a">>,
  <<"P b a m", "P m c b", "P c m a", "", "", "">>,
  <<"P c c n", "P n a a", "P b n b", "", "", "">>,
  <<"P b c m", "P m c a", "P b m a", "P c m b", "P c a m", "P m a b">>,
  <<"P n n m", "P m n n", "P n m n", "", "", "">>,
  <<"P m m n", "P n m m", "P m n m", "", "", "">>,
  <<"P b c n", "P n c a", "P b n a", "P c n b", "P c a n", "P n a b">>,
  <<"P b c a", "", "P c a b", "", "", "">>,
  <<"P n m a", "P b n m", "P m c n", "P n a m", "P m n b", "P c m n">>,
  <<"C m c m", "A m m a", "B b m m", "B m m b", "C c m m", "A m a m">>,
  <<"C m c a", "A b m a", "B b c m", "B m a b", "C c m b", "A c a m">>,
  <<"C m m m", "A m m m", "B m m m", "", "", "">>,
  <<"C c c m", "A m a a", "B b m b", "", "", "">>,
  <<"C m m a", "A b m m", "B m c m", "B m a m", "C m m b", "A c m m">>,
  <<"C c c a", "A b a a", "B b c b", "B b a b", "C c c b", "A c a a">>,
  <<"F m m m", "", "", "", "", "">>,
  <<"F d d d", "", "", "", "", "">>,
  <<"I m m m", "", "", "", "", "">>,
  <<"I b a m", "I m c b", "I c m a", "", "", "">>,
  <<"I b c a", "", "I c a b", "", "", "">>,
  <<"I m m a", "I b m m", "I m c m", "I m a m", "I m m b", "I c m m">>,
  <<"P 4", "C 4", "", "", "", "">>,
  <<"P 41", "C 41", "", "", "", "">>,
  <<"P 42", "C 42", "", "", "", "">>,
  <<"P 43", "C 43", "", "", "", "">>,
  <<"I 4", "F 4", "", "", "", "">>,
  <<"I 41", "F 41", "", "", "", "">>,
  <<"P -4", "C -4", "", "", "", "">>,
  <<"I -4", "F -4", "", "", "", "">>,
  <<"P 4/m", "C 4/m", "", "", "", "">>,
  <<"P 42/m", "C 42/m", "", "", "", "">>,
  <<"P 4/n", "C 4/a", "", "", "", "">>,
  <<"P 42/n", "C 42/a", "", "", "", "">>,
  <<"I 4/m", "F 4/m", "", "", "", "">>,
  <<"I 41/a", "F 41/d", "", "", "", "">>,
  <<"P 4 2 2", "C 4 2 2", "", "", "", "">>,
  <<"P 4 21 2", "C 4 2 21", "", "", "", "">>,
  <<"P 41 2 2", "C 41 2 2", "", "", "", "">>,
  <<"P 41 21 2", "C 41 2 21", "", "", "", "">>,
  <<"P 42 2 2", "C 42 2 2", "", "", "", "">>,
  <<"P 42 21 2", "C 42 2 21", "", "", "", "">>,
  <<"P 43 2 2", "C 43 2 2", "", "", "", "">>,
  <<"P 43 21 2", "C 43 2 21", "", "", "", "">>,
  <<"I 4 2 2", "F 4 2 2", "", "", "", "">>,
  <<"I 41 2 2", "F 41 2 2", "", "", "", "">>,
  <<"P 4 m m", "C 4 m m", "", "", "", "">>,
  <<"P 4 b m", "C 4 m b", "", "", "", "">>,
  <<"P 42 c m", "C 42 m c", "", "", "", "">>,
  <<"P 42 n m", "C 42 m n", "", "", "", "">>,
  <<"P 4 c c", "C 4 c c", "", "", "", "">>,
  <<"P 4 n c", "C 4 c n", "", "", "", "">>,
  <<"P 42 m c", "C 42 c m", "", "", "", "">>,
  <<"P 42 b c", "C 42 c b", "", "", "", "">>,
  <<"I 4 m m", "F 4 m m", "", "", "", "">>,
  <<"I 4 c m", "F 4 m c", "", "", "", "">>,
  <<"I 41 m d", "F 41 d m", "", "", "", "">>,
  <<"I 41 c d", "F 41 d c", "", "", "", "">>,
  <<"P -4 2 m", "C -4 m 2", "", "", "", "">>,
  <<"P -4 2 c", "C -4 c 2", "", "", "", "">>,
  <<"P -4 21 m", "C -4 m 21", "", "", "", "">>,
  <<"P -4 21 c", "C -4 c 21", "", "", "", "">>,
  <<"P -4 m 2", "C -4 2 m", "", "", "", "">>,
  <<"P -4 c 2", "C -4 2 c", "", "", "", "">>,
  <<"P -4 b 2", "C -4 2 b", "", "", "", "">>,
  <<"P -4 n 2", "C -4 2 n", "", "", "", "">>,
  <<"I -4 m 2", "F -4 2 m", "", "", "", "">>,
  <<"I -4 c 2", "F -4 2 c", "", "", "", "">>,
  <<"I -4 2 m", "F -4 m 2", "", "", "", "">>,
  <<"I -4 2 d", "F -4 d 2", "", "", "", "">>,
  <<"P 4/m m m", "C 4/m m m", "", "", "", "">>,
  <<"P 4/m c c", "C 4/m c c", "", "", "", "">>,
  <<"P 4/n b m", "C 4/a m b", "", "", "", "">>,
  <<"P 4/n n c", "C 4/a c n", "", "", "", "">>,
  <<"P 4/m b m", "C 4/m m b", "", "", "", "">>,
  <<"P 4/m n c", "C 4/m c n", "", "", "", "">>,
  <<"P 4/n m m", "C 4/a m m", "", "", "", "">>,
  <<"P 4/n c c", "C 4/a c c", "", "", "", "">>,
  <<"P 42/m m c", "C 42/m c m", "", "", "", "">>,
  <<"P 42/m c m", "C 42/m m c", "", "", "", "">>,
  <<"P 42/n b c", "C 42/a c b", "", "", "", "">>,
  <<"P 42/n n m", "C 42/a m n", "", "", "", "">>,
  <<"P 42/m b c", "C 42/m c b", "", "", "", "">>,
  <<"P 42/m n m", "C 42/m m n", "", "", "", "">>,
  <<"P 42/n m c", "C 42/a c m", "", "", "", "">>,
  <<"P 42/n c m", "C 42/a m c", "", "", "", "">>,
  <<"I 4/m m m", "F 4/m m m", "", "", "", "">>,
  <<"I 4/m c m", "F 4/m m c", "", "", "", "">>,
  <<"I 41/a m d", "F 41/d d m", "", "", "", "">>,
  <<"I 41/a c d", "F 41/d d c", "", "", "", "">>,
  <<"P 3", "", "", "", "", "">>,
  <<"P 31", "", "", "", "", "">>,
  <<"P 32", "", "", "", "", "">>,
  <<"R 3", "", "", "", "", "">>,
  <<"P -3", "", "", "", "", "">>,
  <<"R -3", "", "", "", "", "">>,
  <<"P 3 1 2", "", "", "", "", "">>,
  <<"P 3 2 1", "", "", "", "", "">>,
  <<"P 31 1 2", "", "", "", "", "">>,
  <<"P 31 2 1", "", "", "", "", "">>,
  <<"P 32 1 2", "", "", "", "", "">>,
  <<"P 32 2 1", "", "", "", "", "">>,
  <<"R 3 2", "", "", "", "", "">>,
  <<"P 3 m 1", "", "", "", "", "">>,
  <<"P 3 1 m", "", "", "", "", "">>,
  <<"P 3 c 1", "", "", "", "", "">>,
  <<"P 3 1 c", "", "", "", "", "">>,
  <<"R 3 m", "", "", "", "", "">>,
  <<"R 3 c", "", "", "", "", "">>,
  <<"P -3 1 m", "", "", "", "", "">>,
  <<"P -3 1 c", "", "", "", "", "">>,
  <<"P -3 m 1", "", "", "", "", "">>,
  <<"P -3 c 1", "", "", "", "", "">>,
  <<"R -3 m", "", "", "", "", "">>,
  <<"R -3 c", "", "", "", "", "">>,
  <<"P 6", "", "", "", "", "">>,
  <<"P 61", "", "", "", "", "">>,
  <<"P 65", "", "", "", "", "">>,
  <<"P 62", "", "", "", "", "">>,
  <<"P 64", "", "", "", "", "">>,
  <<"P 63", "", "", "", "", "">>,
  <<"P -6", "", "", "", "", "">>,
  <<"P 6/m", "", "", "", "", "">>,
  <<"P 63/m", "", "", "", "", "">>,
  <<"P 6 2 2", "", "", "", "", "">>,
  <<"P 61 2 2", "", "", "", "", "">>,
  <<"P 65 2 2", "", "", "", "", "">>,
  <<"P 62 2 2", "", "", "", "", "">>,
  <<"P 64 2 2", "", "", "", "", "">>,
  <<"P 63 2 2", "", "", "", "", "">>,
  <<"P 6 m m", "", "", "", "", "">>,
  <<"P 6 c c", "", "", "", "", "">>,
  <<"P 63 c m", "", "", "", "", "">>,
  <<"P 63 m c", "", "", "", "", "">>,
  <<"P -6 m 2", "", "", "", "", "">>,
  <<"P -6 c 2", "", "", "", "", "">>,
  <<"P -6 2 m", "", "", "", "", "">>,
  <<"P -6 2 c", "", "", "", "", "">>,
  <<"P 6/m m m", "", "", "", "", "">>,
  <<"P 6/m c c", "", "", "", "", "">>,
  <<"P 63/m c m", "", "", "", "", "">>,
  <<"P 63/m m c", "", "", "", "", "">>,
  <<"P 2 3", "", "", "", "", "">>,
  <<"F 2 3", "", "", "", "", "">>,
  <<"I 2 3", "", "", "", "", "">>,
  <<"P 21 3", "", "", "", "", "">>,
  <<"I 21 3", "", "", "", "", "">>,
  <<"P m -3", "", "", "", "", "">>,
  <<"P n -3", "", "", "", "", "">>,
  <<"F m -3", "", "", "", "", "">>,
  <<"F d -3", "", "", "", "", "">>,
  <<"I m -3", "", "", "", "", "">>,
  <<"P a -3", "", "", "", "", "">>,
  <<"I a -3", "", "", "", "", "">>,
  <<"P 4 3 2", "", "", "", "", "">>,
  <<"P 42 3 2", "", "", "", "", "">>,
  <<"F 4 3 2", "", "", "", "", "">>,
  <<"F 41 3 2", "", "", "", "", "">>,
  <<"I 4 3 2", "", "", "", "", "">>,
  <<"P 43 3 2", "", "", "", "", "">>,
  <<"P 41 3 2", "", "", "", "", "">>,
  <<"I 41 3 2", "", "", "", "", "">>,
  <<"P -4 3 m", "", "", "", "", "">>,
  <<"F -4 3 m", "", "", "", "", "">>,
  <<"I -4 3 m", "", "", "", "", "">>,
  <<"P -4 3 n", "", "", "", "", "">>,
  <<"F -4 3 c", "", "", "", "", "">>,
  <<"I -4 3 d", "", "", "", "", "">>,
  <<"P m -3 m", "", "", "", "", "">>,
  <<"P n -3 n", "", "", "", "", "">>,
  <<"P m -3 n", "", "", "", "", "">>,
  <<"P n -3 m", "", "", "", "", "">>,
  <<"F m -3 m", "", "", "", "", "">>,
  <<"F m -3 c", "", "", "", "", "">>,
  <<"F d -3 m", "", "", "", "", "">>,
  <<"F d -3 c", "", "", "", "", "">>,
  <<"I m -3 m", "", "", "", "", "">>,
  <<"I a -3 d", "", "", "", "", "">>
>>

\* A lookup whose alias of 231 keeps the setting 1.
lookupSpaceGroupAliasSettingKept(spaceGroup, setting) ==
  IF IsNumber(spaceGroup) /\ spaceGroup > Num(230) /\ setting = Num(1)
  THEN CASE spaceGroup = Num(231) -> <<Num(14), setting>>
         [] spaceGroup = Num(232) -> <<Num(146), setting>>
         [] spaceGroup = Num(233) -> <<Num(148), setting>>
         [] spaceGroup = Num(234) -> <<Num(155), setting>>
         [] spaceGroup = Num(235) -> <<Num(160), setting>>
         [] spaceGroup = Num(236) -> <<Num(161), setting>>
         [] spaceGroup = Num(237) -> <<Num(166), setting>>
         [] spaceGroup = Num(238) -> <<Num(167), setting>>
         [] OTHER -> <<spaceGroup, setting>>
  ELSE <<spaceGroup, setting>>

\* lookupSpaceGroup(spaceGroup, setting): the table entry after the aliases
\* of 231..238; thrown when spaceGroupLookup[spaceGroup - 1] is undefined
\* (reading a property of undefined), the undefined string when the row
\* has no element setting - 1.
lookupSpaceGroupAlias(spaceGroup, setting) ==
  IF IsNumber(spaceGroup) /\ spaceGroup > Num(230) /\ setting = Num(1)
  THEN CASE spaceGroup = Num(231) -> <<Num(14), Num(2)>>
         [] spaceGroup = Num(232) -> <<Num(146), setting>>
         [] spaceGroup = Num(233) -> <<Num(148), setting>>
         [] spaceGroup = Num(234) -> <<Num(155), setting>>
         [] spaceGroup = Num(235) -> <<Num(160), setting>>
         [] spaceGroup = Num(236) -> <<Num(161), setting>>
         [] spaceGroup = Num(237) -> <<Num(166), setting>>
         [] spaceGroup = Num(238) -> <<Num(167), setting>>
         [] OTHER -> <<spaceGroup, setting>>
  ELSE <<spaceGroup, setting>>

lookupSpaceGroup(spaceGroup, setting) ==
  LET a   == lookupSpaceGroupAlias(spaceGroup, setting)
      row == IF IsInteger(a[1]) THEN (a[1] \div 10) - 1 ELSE NaN
      col == IF IsInteger(a[2]) THEN (a[2] \div 10) - 1 ELSE NaN
  IN  IF row \notin 0..(Len(spaceGroupLookup) - 1)
      THEN [thrown |-> TRUE, value |-> undefinedString]
      ELSE IF col \notin 0..(Len(spaceGroupLookup[row + 1]) - 1)
           THEN [thrown |-> FALSE, value |-> undefinedString]
           ELSE [thrown |-> FALSE, value |-> spaceGroupLookup[row + 1][col + 1]]

\* The record types of the scanner.
noRecordType == 0

moleculeRecordType == 1

atomRecordType == 2

bondRecordType == 3

crysinRecordType == 4

TRIPOS == <<"@", "<", "T", "R", "I", "P", "O", "S", ">">>

MarkerMolecule == TRIPOS \o <<"M", "O", "L", "E", "C", "U", "L", "E">>

MarkerAtom == TRIPOS \o <<"A", "T", "O", "M">>

MarkerBond == TRIPOS \o <<"B", "O", "N", "D">>

MarkerCrysin == TRIPOS \o <<"C", "R", "Y", "S", "I", "N">>

-----------------------------------------------------------------------------
(* The structure's stores *)

\* new Float32Array(n): n zeros; a length that is NaN gives an empty array.
Float32Array(n) == [k \in 1..(IF n = NaN THEN 0 ELSE n) |-> 0]

\* array[j] = v on a typed array: a write outside the array is dropped.
SetElement(array, j, v) ==
  IF j + 1 \in DOMAIN array THEN [array EXCEPT ![j + 1] = v] ELSE array

\* store.field[i] = v for the fields of one row: the row i is written, the
\* store's count is left as it is.
SetRow(store, i, row) ==
  [store EXCEPT !.row = IF i + 1 \in DOMAIN store.row
                        THEN [store.row EXCEPT ![i + 1] = row]
                        ELSE Append(store.row, row)]

\* StructureBuilder.addAtom: the row written last joins the structure
\* with its model, residue name and residue number; the count grows by one.
addAtom(store, i, modelindex, resname, resno) ==
  [store EXCEPT !.count = store.count + 1,
                !.row[i + 1] = [store.row[i + 1] EXCEPT !.modelindex = modelindex,
                                                        !.resname = resname,
                                                        !.resno = resno]]

\* BondStore.addBond: one row more, holding the two atom indices and the order.
addBond(store, index1, index2, order) ==
  [count |-> store.count + 1,
   row   |-> Append(store.row,
                    [atomIndex1 |-> index1, atomIndex2 |-> index2, bondOrder |-> order])]

\* new Unitcell(params): the unit cell keeps the parameters it is given.
Unitcell(params) == params

-----------------------------------------------------------------------------
(* _parseChunkOfLines: one line. c = [p, s, thrown] is the parser's local  *)
(* state, the structure, and whether an exception has left the loop.       *)

\* A scanner that keeps the newest frame only.
TrajectoryFrameNewestOnly(c) ==
  LET n == Times(c.p.numAtoms, 3)
  IN  IF n # NaN /\ n < 0
      THEN [c EXCEPT !.p.currentCoord = 0, !.thrown = TRUE]
      ELSE [c EXCEPT !.p.currentCoord = 0,
                     !.p.currentFrame = 1,
                     !.s.frames = <<Float32Array(n)>>,
                     !.p.doFrames = c.p.doFrames \/ c.p.modelIdx > 0]

\* if (asTrajectory) at the ATOM marker: a new frame of numAtoms * 3
\* coordinates joins the frames; doFrames from the second model on.
TrajectoryFrame(c) ==
  LET n == Times(c.p.numAtoms, 3)
  IN  IF n # NaN /\ n < 0
      THEN \* RangeError: invalid typed array length
           [c EXCEPT !.p.currentCoord = 0, !.thrown = TRUE]
      ELSE [c EXCEPT !.p.currentCoord = 0,
                     !.p.currentFrame = Len(c.s.frames) + 1,
                     !.s.frames = Append(c.s.frames, Float32Array(n)),
                     !.p.doFrames = c.p.doFrames \/ c.p.modelIdx > 0]

\* A scanner whose marker test lacks the last else.
UnknownMarkerKeepsType(c) == c

\* The last else of the marker test: a marker that is none of the four.
UnknownMarker(c) == [c EXCEPT !.p.currentRecordType = noRecordType]

\* line[ 0 ] === '@'
MarkerLine(c, line) ==
  IF line = MarkerMolecule
  THEN [c EXCEPT !.p.currentRecordType = moleculeRecordType,
                 !.p.moleculeLineNo = 0,
                 !.p.modelIdx = c.p.modelIdx + 1]
  ELSE IF line = MarkerAtom
  THEN LET c1 == [c EXCEPT !.p.currentRecordType = atomRecordType,
                           !.p.modelAtomIdxStart = c.s.atomStore.count]
       IN  IF opt.asTrajectory THEN TrajectoryFrame(c1) ELSE c1
  ELSE IF line = MarkerBond
  THEN [c EXCEPT !.p.currentRecordType = bondRecordType]
  ELSE IF line = MarkerCrysin
  THEN [c EXCEPT !.p.currentRecordType = crysinRecordType]
  ELSE UnknownMarker(c)

\* currentRecordType === moleculeRecordType
MoleculeLine(c, line) ==
  LET c1 == IF c.p.moleculeLineNo = 0
            THEN [c EXCEPT !.s.title = line, !.s.id = line]
            ELSE IF c.p.moleculeLineNo = 1
            THEN [c EXCEPT !.p.numAtoms = parseInt(Field(split(line), 0))]
            ELSE c
  IN  [c1 EXCEPT !.p.moleculeLineNo = c.p.moleculeLineNo + 1]

\* A scanner whose atom record lacks the firstModelOnly test.
SkipAtomLineNever(c) == FALSE

\* if (firstModelOnly && modelIdx > 0) continue, in the atom record
SkipAtomLine(c) == opt.firstModelOnly /\ c.p.modelIdx > 0

\* The row of the atom store an atom line gives.
AtomRow(ls) ==
  [atomname      |-> Field(ls, 1),
   element       |-> splitDotFirst(Field(ls, 5)),
   x             |-> parseFloat(Field(ls, 2)),
   y             |-> parseFloat(Field(ls, 3)),
   z             |-> parseFloat(Field(ls, 4)),
   serial        |-> Field(ls, 0),
   partialCharge |-> IF Field(ls, 8) # undefinedToken THEN parseFloat(Field(ls, 8)) ELSE 0,
   modelindex    |-> undefined,
   resname       |-> <<>>,
   resno         |-> undefined]

\* currentRecordType === atomRecordType
AtomLine(c, line) ==
  LET ls == split(line)
      x  == parseFloat(Field(ls, 2))
      y  == parseFloat(Field(ls, 3))
      z  == parseFloat(Field(ls, 4))
      j  == c.p.currentCoord * 3
      c1 == IF opt.asTrajectory
            THEN [c EXCEPT !.s.frames[c.p.currentFrame] =
                              SetElement(SetElement(SetElement(@, j, x), j + 1, y), j + 2, z),
                           !.p.currentCoord = c.p.currentCoord + 1]
            ELSE c
      idx == c.p.idx
  IN  IF SkipAtomLine(c) THEN c
      ELSE IF opt.asTrajectory /\ c.p.doFrames THEN c1
      ELSE IF Field(ls, 5) = undefinedToken
      THEN \* TypeError: ls[ 5 ] is undefined
           [c1 EXCEPT !.thrown = TRUE]
      ELSE [c1 EXCEPT !.s.atomStore =
                         addAtom(SetRow(c.s.atomStore, idx, AtomRow(ls)), idx, c.p.modelIdx,
                                 Field(ls, 7),
                                 IF Field(ls, 6) # undefinedToken
                                 THEN parseInt(Field(ls, 6)) ELSE 1),
                      !.p.idx = idx + 1]

\* A scanner whose bond record lacks the asTrajectory test.
SkipBondLineFirstModelOnly(c) == opt.firstModelOnly /\ c.p.modelIdx > 0

\* The two tests that skip a bond line: firstModelOnly or asTrajectory, and
\* a model after the first.
SkipBondLine(c) ==
  \/ opt.firstModelOnly /\ c.p.modelIdx > 0
  \/ opt.asTrajectory /\ c.p.modelIdx > 0

\* ap.index = parseInt(serial) - 1 + modelAtomIdxStart
BondAtomIndex(tok, modelAtomIdxStart) ==
  Plus(Minus(parseInt(tok), 1), modelAtomIdxStart)

\* currentRecordType === bondRecordType
BondLine(c, line) ==
  LET ls == split(line)
  IN  IF SkipBondLine(c) THEN c
      ELSE [c EXCEPT !.s.bondStore =
                        addBond(c.s.bondStore,
                                BondAtomIndex(Field(ls, 1), c.p.modelAtomIdxStart),
                                BondAtomIndex(Field(ls, 2), c.p.modelAtomIdxStart),
                                bondTypes(Field(ls, 3)))]

\* A scanner that reads gamma from the field of beta.
CrysinCellGammaFromBeta(dict, ls) ==
  [dict EXCEPT !.a = parseFloat(Field(ls, 0)),
               !.b = parseFloat(Field(ls, 1)),
               !.c = parseFloat(Field(ls, 2)),
               !.alpha = parseFloat(Field(ls, 3)),
               !.beta = parseFloat(Field(ls, 4)),
               !.gamma = parseFloat(Field(ls, 4))]

\* The six cell parameters of a cell record, assigned to unitcellDict.
CrysinCell(dict, ls) ==
  [dict EXCEPT !.a = parseFloat(Field(ls, 0)),
               !.b = parseFloat(Field(ls, 1)),
               !.c = parseFloat(Field(ls, 2)),
               !.alpha = parseFloat(Field(ls, 3)),
               !.beta = parseFloat(Field(ls, 4)),
               !.gamma = parseFloat(Field(ls, 5))]

\* currentRecordType === crysinRecordType. Mol2Parser also looks up the
\* space group; CCDCMol2Parser does not.
CrysinLine(c, line) ==
  LET ls == split(line)
      c1 == [c EXCEPT !.p.unitcellDict = CrysinCell(@, ls)]
      sg == lookupSpaceGroup(parseFloat(Field(ls, 6)), parseFloat(Field(ls, 7)))
  IN  IF opt.type = "ccdcmol2" THEN c1
      ELSE IF sg.thrown THEN [c1 EXCEPT !.thrown = TRUE]
      ELSE [c1 EXCEPT !.p.unitcellDict.spacegroup = sg.value]

\* A scanner that skips blank lines only.
IsSkippedLineBlankOnly(line) == line = <<>>

\* line === '' || line[ 0 ] === '#'
IsSkippedLine(line) == line = <<>> \/ Head(line) = "#"

\* The body of the loop of _parseChunkOfLines for lines[ i ].
ParseLine(c, rawLine) ==
  LET line == trim(rawLine)
  IN  IF IsSkippedLine(line) THEN c
      ELSE IF Head(line) = "@" THEN MarkerLine(c, line)
      ELSE IF c.p.currentRecordType = moleculeRecordType THEN MoleculeLine(c, line)
      ELSE IF c.p.currentRecordType = atomRecordType THEN AtomLine(c, line)
      ELSE IF c.p.currentRecordType = bondRecordType THEN BondLine(c, line)
      ELSE IF c.p.currentRecordType = crysinRecordType THEN CrysinLine(c, line)
      ELSE c

\* for (let i = _i; i < _n; ++i): the lines _i .. _n - 1 in order; an
\* exception leaves the loop.
RECURSIVE parseLoop(_, _, _, _)
parseLoop(c, i, _n, chunk) ==
  IF i >= _n \/ c.thrown THEN c
  ELSE parseLoop(ParseLine(c, chunk[i + 1]), i + 1, _n, chunk)

\* A scanner whose record type is a local of _parseChunkOfLines, new for
\* every chunk.
_parseChunkOfLinesOwnRecordType(c, _i, _n, chunk) ==
  parseLoop([c EXCEPT !.p.currentRecordType = noRecordType], _i, _n, chunk)

\* _parseChunkOfLines(_i, _n, lines), from the state c.
_parseChunkOfLines(c, _i, _n, chunk) == parseLoop(c, _i, _n, chunk)

-----------------------------------------------------------------------------
(* Numbers of the symmetry engine: the entries of a matrix are rationals   *)
(* n / d in lowest terms with d > 0 (the translations of an operator are   *)
(* quotients of digits).                                                   *)

RECURSIVE GCD(_, _)
GCD(a, b) == IF b = 0 THEN a ELSE GCD(b, a % b)

Abs(a) == IF a < 0 THEN -a ELSE a

\* n / d, in lowest terms.
Rational(n, d) ==
  LET g == GCD(Abs(n), Abs(d))
      k == IF d < 0 THEN -1 ELSE 1
  IN  [n |-> k * (n \div g), d |-> k * (d \div g)]

Whole(n) == [n |-> n, d |-> 1]

RatAdd(a, b) == Rational(a.n * b.d + b.n * a.d, a.d * b.d)

RatSub(a, b) == Rational(a.n * b.d - b.n * a.d, a.d * b.d)

RatMul(a, b) == Rational(a.n * b.n, a.d * b.d)

\* a / b; b is not zero.
RatDiv(a, b) == Rational(a.n * b.d, a.d * b.n)

\* Math.floor
RatFloor(a) == Whole(a.n \div a.d)

-----------------------------------------------------------------------------
(* Vector3 and Matrix4 of three.js, as the symmetry engine uses them.  A   *)
(* vector is <<x, y, z>>; the elements of a matrix are kept column by      *)
(* column, elements[k] being me[k + 1] here.                               *)

Vector3(x, y, z) == <<x, y, z>>

\* vector.floor()
VectorFloor(v) == [k \in 1..3 |-> RatFloor(v[k])]

\* vector.sub(w), vector.add(w)
VectorSub(v, w) == [k \in 1..3 |-> RatSub(v[k], w[k])]

VectorAdd(v, w) == [k \in 1..3 |-> RatAdd(v[k], w[k])]

\* new Matrix4().set(0,0,0,0, 0,0,0,0, 0,0,0,0, 0,0,0,1)
ZeroMatrix == [k \in 1..16 |-> IF k = 16 THEN Whole(1) ELSE Whole(0)]

\* new Matrix4(): the identity.
IdentityMatrix == [k \in 1..16 |-> IF k \in {1, 6, 11, 16} THEN Whole(1) ELSE Whole(0)]

\* me[k] = v. An index past the sixteen elements adds an element that no
\* method of the matrix reads.
SetEntry(me, k, v) == IF k + 1 \in 1..16 THEN [me EXCEPT ![k + 1] = v] ELSE me

\* vector.applyMatrix4(m): the affine image, divided by the fourth coordinate.
applyMatrix4(v, me) ==
  LET row(r) == RatAdd(RatAdd(RatMul(me[1 + r], v[1]), RatMul(me[5 + r], v[2])),
                       RatAdd(RatMul(me[9 + r], v[3]), me[13 + r]))
  IN  [k \in 1..3 |-> RatDiv(row(k - 1), row(3))]

\* vector.setFromMatrixPosition(m)
setFromMatrixPosition(me) == <<me[13], me[14], me[15]>>

\* m.setPosition(v)
setPosition(me, v) == [me EXCEPT ![13] = v[1], ![14] = v[2], ![15] = v[3]]

\* The rotation block of a matrix, row by row.
RotationRow(me, r) == <<me[1 + r], me[5 + r], me[9 + r]>>

-----------------------------------------------------------------------------
(* The operator compiler: CCDCMol2Parser._setSymmetryOperations.           *)

\* const reInteger = /^[1-9]$/
reInteger(c) == c \in {"1", "2", "3", "4", "5", "6", "7", "8", "9"}

\* A compiler that takes no notice of the '/'.
CompileCharNoDenominator(st, c, row) ==
  LET me == st.me
  IN  IF c = "-" THEN [st EXCEPT !.negate = TRUE]
      ELSE IF c = "+" THEN [st EXCEPT !.negate = FALSE]
      ELSE IF c = "X" THEN [st EXCEPT !.me = SetEntry(me, 0 + row,
                                                      IF st.negate THEN Whole(-1) ELSE Whole(1))]
      ELSE IF c = "Y" THEN [st EXCEPT !.me = SetEntry(me, 4 + row,
                                                      IF st.negate THEN Whole(-1) ELSE Whole(1))]
      ELSE IF c = "Z" THEN [st EXCEPT !.me = SetEntry(me, 8 + row,
                                                      IF st.negate THEN Whole(-1) ELSE Whole(1))]
      ELSE IF reInteger(c)
      THEN [st EXCEPT !.me = SetEntry(me, 12 + row, Whole(DigitValue(c)))]
      ELSE st

\* The body of the loop over the characters of one component of an
\* operator: the character c of the component of the row.
CompileChar(st, c, row) ==
  LET me == st.me
  IN  IF c = "-" THEN [st EXCEPT !.negate = TRUE]
      ELSE IF c = "+" THEN [st EXCEPT !.negate = FALSE]
      ELSE IF c = "/" THEN [st EXCEPT !.denominator = TRUE]
      ELSE IF c = "X" THEN [st EXCEPT !.me = SetEntry(me, 0 + row,
                                                      IF st.negate THEN Whole(-1) ELSE Whole(1))]
      ELSE IF c = "Y" THEN [st EXCEPT !.me = SetEntry(me, 4 + row,
                                                      IF st.negate THEN Whole(-1) ELSE Whole(1))]
      ELSE IF c = "Z" THEN [st EXCEPT !.me = SetEntry(me, 8 + row,
                                                      IF st.negate THEN Whole(-1) ELSE Whole(1))]
      ELSE IF reInteger(c)
      THEN IF st.denominator
           THEN IF 12 + row < 16
                THEN [st EXCEPT !.me = SetEntry(me, 12 + row,
                                                RatDiv(me[13 + row], Whole(DigitValue(c))))]
                ELSE st
           ELSE [st EXCEPT !.me = SetEntry(me, 12 + row, Whole(DigitValue(c)))]
      ELSE \* Log.warn: unknown token
           st

\* for (let i = 0, n = elm.length; i < n; ++i)
RECURSIVE CompileChars(_, _, _)
CompileChars(st, elm, row) ==
  IF elm = <<>> THEN st
  ELSE CompileChars(CompileChar(st, Head(elm), row), Tail(elm), row)

\* A compiler that never moves on to the next row.
RECURSIVE CompileComponentsSameRow(_, _, _)
CompileComponentsSameRow(me, symop, row) ==
  IF symop = <<>> THEN me
  ELSE CompileComponentsSameRow(
         CompileChars([me |-> me, negate |-> FALSE, denominator |-> FALSE],
                      Head(symop), row).me,
         Tail(symop), row)

\* symop.forEach(function (elm) { ... row += 1 }): the components from the
\* row on, negate and denominator new for each.
RECURSIVE CompileComponents(_, _, _)
CompileComponents(me, symop, row) ==
  IF symop = <<>> THEN me
  ELSE CompileComponents(
         CompileChars([me |-> me, negate |-> FALSE, denominator |-> FALSE],
                      Head(symop), row).me,
         Tail(symop), row + 1)

\* The matrix of one operator, a sequence of components.
CompileSymop(symop) == CompileComponents(ZeroMatrix, symop, 0)

\* array.toString(): the elements joined by commas.
RECURSIVE toString(_)
toString(symop) ==
  IF symop = <<>> THEN <<>>
  ELSE IF Len(symop) = 1 THEN symop[1]
  ELSE symop[1] \o <<",">> \o toString(Tail(symop))

\* dict[name] = value on an object kept as the sequence of its properties
\* in the order of their creation.
SetProperty(dict, name, value) ==
  IF \E i \in 1..Len(dict) : dict[i].name = name
  THEN [i \in 1..Len(dict) |-> IF dict[i].name = name
                               THEN [name |-> name, value |-> value] ELSE dict[i]]
  ELSE Append(dict, [name |-> name, value |-> value])

\* dict[name]
GetProperty(dict, name) ==
  (CHOOSE e \in {dict[i] : i \in 1..Len(dict)} : e.name = name).value

\* _setSymmetryOperations(operators), the operators from the k-th on.
RECURSIVE setSymmetryOperationsFrom(_, _, _)
setSymmetryOperationsFrom(matrixDict, operators, k) ==
  IF k > Len(operators) THEN matrixDict
  ELSE setSymmetryOperationsFrom(
         SetProperty(matrixDict, toString(operators[k]), CompileSymop(operators[k])),
         operators, k + 1)

_setSymmetryOperations(operators) == setSymmetryOperationsFrom(<<>>, operators, 1)

-----------------------------------------------------------------------------
(* The unit-cell assembly builder: CCDCMol2Parser._buildUnitcellAssembly.  *)

\* The order of two strings of digits of one length.
RECURSIVE DigitsBelow(_, _)
DigitsBelow(a, b) ==
  /\ a # <<>>
  /\ \/ DigitValue(Head(a)) < DigitValue(Head(b))
     \/ Head(a) = Head(b) /\ DigitsBelow(Tail(a), Tail(b))

\* The order of the values of two array indices.
IndexBelow(a, b) == Len(a) < Len(b) \/ (Len(a) = Len(b) /\ DigitsBelow(a, b))

\* A property name that is an array index: "0", or digits that begin with
\* none, below 2^32 - 1.
IsArrayIndex(name) ==
  /\ name # <<>>
  /\ \A k \in 1..Len(name) : name[k] \in Digits
  /\ (name[1] = "0" => Len(name) = 1)
  /\ IndexBelow(name, <<"4", "2", "9", "4", "9", "6", "7", "2", "9", "5">>)

\* The names of a set of array indices in ascending order of their values.
RECURSIVE Ascending(_)
Ascending(names) ==
  IF names = {} THEN <<>>
  ELSE LET least == CHOOSE n \in names : \A o \in names : n = o \/ IndexBelow(n, o)
       IN  <<least>> \o Ascending(names \ {least})

\* Object.keys(dict): the array indices in ascending order, then the other
\* names in the order of their creation.
ObjectKeys(dict) ==
  LET names == [i \in 1..Len(dict) |-> dict[i].name]
  IN  Ascending({names[i] : i \in {j \in 1..Len(dict) : IsArrayIndex(names[j])}})
      \o SelectSeq(names, LAMBDA n : ~ IsArrayIndex(n))

\* m.multiplyMatrices(uc.fracToCart, m); m.multiply(uc.cartToFrac): the
\* matrix m of fractional coordinates between the two matrices of the cell.
Conjugate(uc, m) == [fracToCart |-> uc, frac |-> m, cartToFrac |-> uc]

\* sm.clone().multiply(nm): the product, sm itself for the identity.
Multiply(sm, nm) == IF nm = IdentityMatrix THEN sm ELSE [sm |-> sm, nm |-> nm]

\* A re-centring that leaves the shift out.
RecentreWithoutShift(m, structureCenterFrac, centerFrac, shift) ==
  LET centerFracSymop == VectorFloor(applyMatrix4(structureCenterFrac, m))
      positionFracSymop ==
        VectorAdd(VectorSub(setFromMatrixPosition(m), centerFracSymop), centerFrac)
  IN  setPosition(m, positionFracSymop)

\* A re-centring that does not take away the cell of the image of the centre.
RecentreKeepingImageCell(m, structureCenterFrac, centerFrac, shift) ==
  LET positionFracSymop == VectorAdd(setFromMatrixPosition(m), centerFrac)
  IN  setPosition(m, IF shift # <<>> THEN VectorAdd(positionFracSymop, shift[1])
                     ELSE positionFracSymop)

\* The body of getMatrixList for one operator, before the change to
\* cartesian coordinates: the position of m is moved so that the image of
\* the centre lies in the cell of the centre, moved by the shift.
Recentre(m, structureCenterFrac, centerFrac, shift) ==
  LET centerFracSymop == VectorFloor(applyMatrix4(structureCenterFrac, m))
      positionFracSymop ==
        VectorAdd(VectorSub(setFromMatrixPosition(m), centerFracSymop), centerFrac)
  IN  setPosition(m, IF shift # <<>> THEN VectorAdd(positionFracSymop, shift[1])
                     ELSE positionFracSymop)

\* getMatrixList(shift): one matrix for every key of symopDict, in the
\* order of Object.keys.
getMatrixList(uc, symopDict, structureCenterFrac, centerFrac, shift) ==
  LET names == ObjectKeys(symopDict)
  IN  [k \in 1..Len(names) |->
         Conjugate(uc, Recentre(GetProperty(symopDict, names[k]),
                                structureCenterFrac, centerFrac, shift))]

\* vec.set(x, y, z)
Shift(x, y, z) == <<Vector3(Whole(x), Whole(y), Whole(z))>>

\* A list of calls where the cell 666 is left out and the cell 655 made twice.
supercellShiftsFaceTwice ==
  << Shift(1, 0, 0), Shift(0, 1, 0), Shift(0, 0, 1),
     Shift(-1, 0, 0), Shift(0, -1, 0), Shift(0, 0, -1),
     Shift(1, 1, 0), Shift(1, 0, 1), Shift(0, 1, 1),
     Shift(-1, -1, 0), Shift(-1, 0, -1), Shift(0, -1, -1),
     Shift(1, -1, -1), Shift(1, 1, -1), Shift(1, -1, 1),
     Shift(-1, 1, 1), Shift(-1, -1, 1), Shift(-1, 1, -1),
     Shift(0, 1, -1), Shift(0, -1, 1), Shift(1, 0, -1),
     Shift(-1, 0, 1), Shift(1, -1, 0), Shift(-1, 1, 0),
     <<>>, Shift(1, 0, 0), Shift(-1, -1, -1) >>

\* The arguments of the 27 calls of getMatrixList for the supercell, in
\* the order of the calls; none for the cell 555.
supercellShifts ==
  << Shift(1, 0, 0), Shift(0, 1, 0), Shift(0, 0, 1),
     Shift(-1, 0, 0), Shift(0, -1, 0), Shift(0, 0, -1),
     Shift(1, 1, 0), Shift(1, 0, 1), Shift(0, 1, 1),
     Shift(-1, -1, 0), Shift(-1, 0, -1), Shift(0, -1, -1),
     Shift(1, -1, -1), Shift(1, 1, -1), Shift(1, -1, 1),
     Shift(-1, 1, 1), Shift(-1, -1, 1), Shift(-1, 1, -1),
     Shift(0, 1, -1), Shift(0, -1, 1), Shift(1, 0, -1),
     Shift(-1, 0, 1), Shift(1, -1, 0), Shift(-1, 1, 0),
     <<>>, Shift(1, 1, 1), Shift(-1, -1, -1) >>

\* Array.prototype.concat of the lists, in order.
RECURSIVE concat(_)
concat(lists) == IF lists = <<>> THEN <<>> ELSE Head(lists) \o concat(Tail(lists))

\* A builder that composes with the matrices of the NCS and not with the identity.
ComposeWithNCSOnly(smList, ncsMatrixList) ==
  concat([i \in 1..Len(smList) |->
            [j \in 1..(Len(ncsMatrixList) - 1) |-> Multiply(smList[i], ncsMatrixList[j + 1])]])

\* smList.forEach(sm => ncsMatrixList.forEach(nm => push(sm * nm)))
ComposeWithNCS(smList, ncsMatrixList) ==
  concat([i \in 1..Len(smList) |->
            [j \in 1..Len(ncsMatrixList) |-> Multiply(smList[i], ncsMatrixList[j])]])

\* new Assembly(name) and assembly.addPart(matrixList)
Assembly(name, matrixList) == [name |-> name, partList |-> <<[matrixList |-> matrixList]>>]

\* _buildUnitcellAssembly(structure, operators): the biomolDict of the
\* structure afterwards. structureCenterFrac is the centre of the structure
\* in the fractional coordinates of the cell.
_buildUnitcellAssembly(structure, operators, structureCenterFrac) ==
  IF structure.unitcell = <<>> THEN structure.biomolDict
  ELSE
    LET uc == structure.unitcell[1]
        centerFrac == VectorFloor(structureCenterFrac)
        symopDict == _setSymmetryOperations(operators)
        list(shift) == getMatrixList(uc, symopDict, structureCenterFrac, centerFrac, shift)
        unitcellMatrixList == list(<<>>)
        NCS == structure.biomolDict.NCS
        ncsMatrixList == IF NCS # <<>>
                         THEN <<IdentityMatrix>> \o NCS[1].partList[1].matrixList
                         ELSE <<>>
        supercellMatrixList ==
          concat([k \in 1..Len(supercellShifts) |-> list(supercellShifts[k])])
    IN  [structure.biomolDict EXCEPT
           !.UNITCELL = <<Assembly("UNITCELL",
                                   IF NCS # <<>>
                                   THEN ComposeWithNCS(unitcellMatrixList, ncsMatrixList)
                                   ELSE unitcellMatrixList)>>,
           !.SUPERCELL = <<Assembly("SUPERCELL",
                                    IF NCS # <<>>
                                    THEN ComposeWithNCS(supercellMatrixList, ncsMatrixList)
                                    ELSE supercellMatrixList)>>]

-----------------------------------------------------------------------------
(* The envelope of CCDCMol2Parser: the operator strings.                   *)

\* str.split(sep) for a separator of one character: the piece before the
\* first separator, then the pieces of what follows it.
RECURSIVE splitOn(_, _)
splitOn(str, sep) ==
  LET at == {i \in 1..Len(str) : str[i] = sep}
  IN  IF at = {} THEN <<str>>
      ELSE LET first == CHOOSE i \in at : \A j \in at : i <= j
           IN  <<SubSeq(str, 1, first - 1)>> \o splitOn(SubSeq(str, first + 1, Len(str)), sep)

\* The upper-case letter of a character.
UpperCase(c) ==
  CASE c = "a" -> "A" [] c = "b" -> "B" [] c = "c" -> "C" [] c = "d" -> "D" [] c = "e" -> "E"
    [] c = "f" -> "F" [] c = "g" -> "G" [] c = "h" -> "H" [] c = "i" -> "I" [] c = "j" -> "J"
    [] c = "k" -> "K" [] c = "l" -> "L" [] c = "m" -> "M" [] c = "n" -> "N" [] c = "o" -> "O"
    [] c = "p" -> "P" [] c = "q" -> "Q" [] c = "r" -> "R" [] c = "s" -> "S" [] c = "t" -> "T"
    [] c = "u" -> "U" [] c = "v" -> "V" [] c = "w" -> "W" [] c = "x" -> "X" [] c = "y" -> "Y"
    [] c = "z" -> "Z"
    [] OTHER -> c

\* o.toUpperCase()
toUpperCase(str) == [k \in 1..Len(str) |-> UpperCase(str[k])]

\* The arrow function spacegroupOperators of _parse: the operators of the
\* string, the components of each in upper case.
spacegroupOperators(str) ==
  LET ops == splitOn(str, ";")
  IN  [k \in 1..Len(ops) |->
         LET semop == splitOn(ops[k], ",")
         IN  [j \in 1..Len(semop) |-> toUpperCase(semop[j])]]

-----------------------------------------------------------------------------
(* The lines of the input *)

BlankLine == <<" ">>

CommentLine == <<" ", "#", "c">>

\* "@<TRIPOS>SET": a marker the scanner does not know.
UnknownMarkerLine == TRIPOS \o <<"S", "E", "T">>

\* " 1 C1 1.5 2 3 C.3 1 ALA 0.5"
AtomLineFull == <<" ", "1", " ", "C", "1", " ", "1", ".", "5", " ", "2", " ", "3", " ", "C", ".", "3", " ", "1", " ", "A", "L", "A", " ", "0", ".", "5">>

\* "2 O 0 0 1 O"
AtomLineShort == <<"2", " ", "O", " ", "0", " ", "0", " ", "1", " ", "O">>

\* "1 1 2 ar"
BondLineAr == <<"1", " ", "1", " ", "2", " ", "a", "r">>

\* "2 2 3 1"
BondLineSingle == <<"2", " ", "2", " ", "3", " ", "1">>

\* "2 3 4 90 100 110 14 2"
CrysinLineFull == <<"2", " ", "3", " ", "4", " ", "9", "0", " ", "1", "0", "0", " ", "1", "1", "0", " ", "1", "4", " ", "2">>

\* "-1 x"
CountLineNegative == <<"-", "1", " ", "x">>

\* "mol"
TitleLine == <<"m", "o", "l">>

SkippedLines == {BlankLine, CommentLine}

MarkerLines ==
  {MarkerMolecule, MarkerAtom \o <<" ">>, MarkerBond, MarkerCrysin, UnknownMarkerLine}

DataLines ==
  {AtomLineFull, AtomLineShort, BondLineAr, BondLineSingle, CrysinLineFull,
   CountLineNegative, TitleLine}

Lines == SkippedLines \cup MarkerLines \cup DataLines

\* The bounds of the exploration: how many lines an input holds.
MaxLines == 4

-----------------------------------------------------------------------------
(* The parser. In s the centre of the structure is kept in the fractional  *)
(* coordinates of the cell: structure.center and the matrices of the       *)
(* Unitcell are computed outside these sources.                            *)

Options ==
  [type : {"mol2", "ccdcmol2"}, firstModelOnly : BOOLEAN, asTrajectory : BOOLEAN]

\* The locals of _parse before the first line.
InitLocals ==
  [idx               |-> 0,
   moleculeLineNo    |-> 0,
   modelAtomIdxStart |-> 0,
   modelIdx          |-> -1,
   numAtoms          |-> 0,
   currentRecordType |-> noRecordType,
   doFrames          |-> FALSE,
   currentFrame      |-> undefined,
   currentCoord      |-> undefined,
   unitcellDict      |-> [a |-> undefined, b |-> undefined, c |-> undefined,
                          alpha |-> undefined, beta |-> undefined, gamma |-> undefined,
                          spacegroup |-> undefinedString]]

\* A new structure.
InitStructure ==
  [title     |-> <<>>,
   id        |-> <<>>,
   frames    |-> <<>>,
   atomStore |-> [count |-> 0, row |-> <<>>],
   bondStore |-> [count |-> 0, row |-> <<>>],
   unitcell  |-> <<>>,
   biomolDict |-> [NCS |-> <<>>, UNITCELL |-> <<>>, SUPERCELL |-> <<>>],
   center    |-> Vector3(Whole(0), Whole(0), Whole(0))]

\* A streamer with nothing in it: no text, no operators, no cell dimensions.
NoJsonData == [mol2 |-> <<>>, spacegroupOperators |-> <<>>, cellDimensions |-> <<>>]

\* The locals of _buildUnitcellAssembly before it is called.
InitBuild == [operators |-> <<>>, symopDict |-> <<>>, shift |-> <<>>, matrixList |-> <<>>]

Init ==
  /\ opt \in Options
  /\ p = InitLocals
  /\ s = InitStructure
  /\ lines = <<>>
  /\ doc = <<>>
  /\ consumed = 0
  /\ pc = "scan"
  /\ jsonData = NoJsonData
  /\ calls = <<>>
  /\ structures = <<>>
  /\ build = InitBuild

\* What the callback of eachChunkOfLines does with one chunk:
\* _parseChunkOfLines(0, lines.length, lines).
Scan(chunk) ==
  /\ pc = "scan"
  /\ LET c == _parseChunkOfLines([p |-> p, s |-> s, thrown |-> FALSE], 0, Len(chunk), chunk)
     IN  /\ p' = c.p
         /\ s' = c.s
         /\ pc' = IF c.thrown THEN "thrown" ELSE "scan"
  /\ lines' = chunk
  /\ consumed' = consumed + Len(chunk)
  /\ UNCHANGED <<opt, jsonData, calls, build, structures>>

\* One turn of the loop on the next line of the input.
NextLine(line) == Scan(<<line>>) /\ UNCHANGED doc

\* The callback of eachChunkOfLines, the chunk kept in doc.
EachChunkOfLines(chunk) == Scan(chunk) /\ doc' = doc \o chunk

\* An end of the input that makes a unit cell of whatever was read.
EndOfLinesAlwaysUnitcell ==
  /\ pc = "scan"
  /\ s' = [s EXCEPT !.unitcell = <<Unitcell(p.unitcellDict)>>]
  /\ pc' = "done"
  /\ lines' = <<>>
  /\ UNCHANGED <<opt, p, doc, consumed, jsonData, calls, build, structures>>

\* The end of the input: the unit cell is made from the cell parameters read.
EndOfLines ==
  /\ pc = "scan"
  /\ s' = [s EXCEPT !.unitcell = IF p.unitcellDict.a # undefined
                                 THEN <<Unitcell(p.unitcellDict)>>
                                 ELSE <<>>]
  /\ pc' = "done"
  /\ lines' = <<>>
  /\ UNCHANGED <<opt, p, doc, consumed, jsonData, calls, build, structures>>

Next ==
  \/ \E line \in Lines : consumed < MaxLines /\ NextLine(line)
  \/ EndOfLines

Spec == Init /\ [][Next]_vars

-----------------------------------------------------------------------------
(* Inputs of several models, kept in doc: the three markers of a model, an *)
(* atom line and a bond line (each is a title or a count line of a         *)
(* molecule header too).  Mol2Parser, every choice of the two options.     *)

ModelLines == {MarkerMolecule, MarkerAtom, MarkerBond, AtomLineShort, BondLineAr}

MaxModelLines == 6

InitModels == Init /\ opt.type = "mol2"

NextModels ==
  \/ \E line \in ModelLines : consumed < MaxModelLines /\ EachChunkOfLines(<<line>>)
  \/ EndOfLines

SpecModels == InitModels /\ [][NextModels]_vars

-----------------------------------------------------------------------------
(* Inputs cut into chunks of any size, kept in doc.                        *)

ChunkLines ==
  {MarkerMolecule, MarkerAtom, MarkerBond, MarkerCrysin, AtomLineShort, CrysinLineFull}

MaxChunkedLines == 4

NextChunks ==
  \/ \E n \in 1..(MaxChunkedLines - consumed) :
       \E chunk \in [1..n -> ChunkLines] : EachChunkOfLines(chunk)
  \/ EndOfLines

SpecChunks == InitModels /\ [][NextChunks]_vars

\* The lines of a trajectory: the MOLECULE and ATOM markers, a line that
\* reads as a title, as a count of 2 or as an atom, and one whose count is 1.
FrameLines == {MarkerMolecule, MarkerAtom, AtomLineShort, BondLineAr}

MaxFrameLines == 8

InitFrames == InitModels /\ opt.asTrajectory /\ ~ opt.firstModelOnly

NextFrames ==
  \/ \E line \in FrameLines : consumed < MaxFrameLines /\ EachChunkOfLines(<<line>>)
  \/ EndOfLines

\* The scan of a trajectory, one line a chunk.
SpecFrames == InitFrames /\ [][NextFrames]_vars

-----------------------------------------------------------------------------
(* The whole of _parse: the scan of the text, the unit cell, the calls of  *)
(* the collaborators and the assemblies.  The text is scanned in one       *)
(* chunk; the two options are off.                                         *)

\* The lines joined by line feeds.
RECURSIVE Text(_)
Text(ls) ==
  IF Len(ls) = 1 THEN ls[1] ELSE ls[1] \o <<"\n">> \o Text(Tail(ls))

\* A model of one atom and no cell record; the same with a cell record
\* before it; an atom line of four fields, which ends the scan.
TextWithoutCell == Text(<<MarkerMolecule, TitleLine, BondLineAr, MarkerAtom, AtomLineFull>>)

TextWithCell ==
  Text(<<MarkerCrysin, CrysinLineFull, MarkerMolecule, TitleLine, BondLineAr,
         MarkerAtom, AtomLineFull>>)

TextWithShortAtomLine == Text(<<MarkerAtom, BondLineAr>>)

Texts == {TextWithoutCell, TextWithCell, TextWithShortAtomLine}

\* "x,y,z"
OperatorsIdentity == <<"x", ",", "y", ",", "z">>

\* "x,y,z;-x,-y,1/2+z"
OperatorsTwo == <<"x", ",", "y", ",", "z", ";", "-", "x", ",", "-", "y", ",", "1", "/", "2", "+", "z">>

\* "x,y,z;-x,-y,z;x,y,z"
OperatorsRepeated == <<"x", ",", "y", ",", "z", ";", "-", "x", ",", "-", "y", ",", "z", ";", "x", ",", "y", ",", "z">>

\* "x,y,z;X,Y,Z"
OperatorsTwoCases == <<"x", ",", "y", ",", "z", ";", "X", ",", "Y", ",", "Z">>

\* "2;1"
OperatorsNumbered == <<"2", ";", "1">>

\* "x,y,z;2"
OperatorsWithNumber == <<"x", ",", "y", ",", "z", ";", "2">>

\* "-y,x-y,z;x,y,z"
OperatorsHexagonal == <<"-", "y", ",", "x", "-", "y", ",", "z", ";", "x", ",", "y", ",", "z">>

\* ""
OperatorsNone == <<>>

\* "1/2+X,-Y,1/2-Z"
OperatorsHalves == <<"1", "/", "2", "+", "X", ",", "-", "Y", ",", "1", "/", "2", "-", "Z">>

OperatorStrings ==
  {OperatorsIdentity, OperatorsTwo, OperatorsRepeated, OperatorsTwoCases,
   OperatorsNumbered, OperatorsWithNumber, OperatorsHexagonal, OperatorsNone, OperatorsHalves}

\* "9 9 9 90 90 90"
CellDimensions == <<"9", " ", "9", " ", "9", " ", "9", "0", " ", "9", "0", " ", "9", "0">>

\* The envelopes: the text, the operators (or none) and the cell dimensions
\* (or none).
Envelopes ==
  [mol2 : {<<t>> : t \in Texts},
   spacegroupOperators : {<<>>} \cup {<<o>> : o \in OperatorStrings},
   cellDimensions : {<<>>, <<CellDimensions>>}]

\* What the streamer of Mol2Parser holds: the text.
RawTexts == [mol2 : {<<t>> : t \in Texts}, spacegroupOperators : {<<>>}, cellDimensions : {<<>>}]

\* Two matrices of a non-crystallographic symmetry: "-X,-Y,Z" and "Y,X,1/2+Z".
NCSMatrix1 == CompileSymop(<<<<"-", "X">>, <<"-", "Y">>, <<"Z">>>>)

NCSMatrix2 == CompileSymop(<<<<"Y">>, <<"X">>, <<"1", "/", "2", "+", "Z">>>>)

\* No NCS assembly, one of one matrix, one of two.
NCSAssemblies ==
  {<<>>, <<Assembly("NCS", <<NCSMatrix1>>)>>, <<Assembly("NCS", <<NCSMatrix1, NCSMatrix2>>)>>}

\* A UNITCELL assembly that the structure holds before the parse, or none.
OldAssemblies == {<<>>, <<Assembly("UNITCELL", <<IdentityMatrix>>)>>}

\* Centres of a structure, in fractional coordinates.
Centres ==
  {Vector3(Whole(0), Whole(0), Whole(0)),
   Vector3(Rational(1, 2), Rational(-1, 4), Rational(7, 3)),
   Vector3(Rational(-5, 4), Whole(1), Rational(1, 2))}

InitParse ==
  /\ opt \in {o \in Options : ~ o.firstModelOnly /\ ~ o.asTrajectory}
  /\ p = InitLocals
  /\ s \in {[InitStructure EXCEPT !.biomolDict.NCS = ncs,
                                  !.biomolDict.UNITCELL = old,
                                  !.center = centre] :
              ncs \in NCSAssemblies, old \in OldAssemblies, centre \in Centres}
  /\ lines = <<>>
  /\ doc = <<>>
  /\ consumed = 0
  /\ pc = "scan"
  /\ jsonData \in (IF opt.type = "ccdcmol2" THEN Envelopes ELSE RawTexts)
  /\ calls = <<>>
  /\ structures = <<>>
  /\ build = InitBuild

\* const lines = jsonData.mol2.split('\n'); _parseChunkOfLines(0,
\* lines.length, lines) in CCDCMol2Parser; the callback of eachChunkOfLines
\* with the lines of the text in Mol2Parser.
ParseText ==
  /\ consumed = 0
  /\ EachChunkOfLines(splitOn(jsonData.mol2[1], "\n"))

\* The calls between the unit cell and the assemblies, in the order of the
\* bond inference before the chain names.
PostParseCallsBondsFirst ==
  << "sb.finalize", "s.finalizeAtoms", "calculateBondsWithin", "calculateBondsBetween",
     "calculateChainnames", "s.finalizeBonds", "assignResidueTypeBonds",
     "calculateSecondaryStructure" >>

\* The calls between the unit cell and the assemblies, in order.
PostParseCalls ==
  << "sb.finalize", "s.finalizeAtoms", "calculateChainnames", "calculateBondsWithin",
     "calculateBondsBetween", "s.finalizeBonds", "assignResidueTypeBonds",
     "calculateSecondaryStructure" >>

\* The next of the calls after the unit cell was set.
PostParse ==
  /\ pc = "done"
  /\ Len(calls) < Len(PostParseCalls)
  /\ calls' = Append(calls, PostParseCalls[Len(calls) + 1])
  /\ UNCHANGED <<opt, p, s, lines, doc, consumed, pc, jsonData, build, structures>>

\* spacegroupOperators(jsonData.spacegroupOperators) in CCDCMol2Parser: a
\* TypeError for an envelope without operators, else the operators are
\* split and _buildUnitcellAssembly called. buildUnitcellAssembly(s) in
\* Mol2Parser: a function outside these sources, of which the call is kept.
BuildAssemblies ==
  /\ pc = "done"
  /\ Len(calls) = Len(PostParseCalls)
  /\ IF opt.type = "ccdcmol2"
     THEN IF jsonData.spacegroupOperators = <<>>
          THEN pc' = "thrown" /\ UNCHANGED <<s, calls, build>>
          ELSE LET operators == spacegroupOperators(jsonData.spacegroupOperators[1])
               IN  /\ calls' = Append(calls, "_buildUnitcellAssembly")
                   /\ s' = [s EXCEPT !.biomolDict = _buildUnitcellAssembly(s, operators, s.center)]
                   /\ build' = [build EXCEPT
                                  !.operators = operators,
                                  !.symopDict = IF s.unitcell # <<>>
                                                THEN _setSymmetryOperations(operators)
                                                ELSE <<>>]
                   /\ pc' = "end"
     ELSE /\ calls' = Append(calls, "buildUnitcellAssembly")
          /\ pc' = "end"
          /\ UNCHANGED <<s, build>>
  /\ UNCHANGED <<opt, p, lines, doc, consumed, jsonData, structures>>

NextParse ==
  \/ ParseText
  \/ consumed > 0 /\ EndOfLines
  \/ PostParse
  \/ BuildAssemblies

SpecParse == InitParse /\ [][NextParse]_vars

-----------------------------------------------------------------------------
(* The operator compiler on its own: every operator string of the axis     *)
(* letters, the signs and the comma up to a length, and some with digits.  *)

OperatorAlphabet == {"X", "Y", "Z", "+", "-", ","}

MaxOperatorLen == 6

AxisOperatorStrings == UNION {[1..n -> OperatorAlphabet] : n \in 0..MaxOperatorLen}

\* "-Y,X-Y,Z"
OperatorHexagonal == <<"-", "Y", ",", "X", "-", "Y", ",", "Z">>

\* Operators of one component made of digits, the '/' and a character that
\* is no token of an operator.
DigitAlphabet == {"0", "1", "2", "4", "/", "Q"}

MaxDigitOperatorLen == 3

DigitOperatorStrings == UNION {[1..n -> DigitAlphabet] : n \in 1..MaxDigitOperatorLen}

InitCompile ==
  /\ opt = [type |-> "ccdcmol2", firstModelOnly |-> FALSE, asTrajectory |-> FALSE]
  /\ p = InitLocals
  /\ s = InitStructure
  /\ lines = <<>>
  /\ doc = <<>>
  /\ consumed = 0
  /\ pc = "compile"
  /\ jsonData \in [mol2 : {<<>>},
                   spacegroupOperators :
                     {<<o>> : o \in AxisOperatorStrings \cup DigitOperatorStrings
                                      \cup {OperatorsHalves, OperatorHexagonal}},
                   cellDimensions : {<<>>}]
  /\ calls = <<>>
  /\ structures = <<>>
  /\ build = [InitBuild EXCEPT !.operators = spacegroupOperators(jsonData.spacegroupOperators[1])]

\* const symopDict = this._setSymmetryOperations(operators)
SetSymmetryOperations ==
  /\ pc = "compile"
  /\ build' = [build EXCEPT !.symopDict = _setSymmetryOperations(build.operators)]
  /\ pc' = "compiled"
  /\ UNCHANGED <<opt, p, s, lines, doc, consumed, jsonData, calls, structures>>

NextCompile == SetSymmetryOperations

SpecCompile == InitCompile /\ [][NextCompile]_vars

-----------------------------------------------------------------------------
(* The re-centring of getMatrixList on its own: one operator of three      *)
(* components, a centre and a shift; the list is made, and the re-centring *)
(* applied once more to the matrices of the list.                          *)

\* Components of an operator: "X", "-Y", "Z", "-X", "X-Y", "1/2+X", "1/2-Z", "1/3+Y", "2/3-X"
Components ==
  {<<"X">>,
   <<"-", "Y">>,
   <<"Z">>,
   <<"-", "X">>,
   <<"X", "-", "Y">>,
   <<"1", "/", "2", "+", "X">>,
   <<"1", "/", "2", "-", "Z">>,
   <<"1", "/", "3", "+", "Y">>,
   <<"2", "/", "3", "-", "X">>}

\* The unit cell of these structures.
SomeUnitcell ==
  Unitcell([InitLocals.unitcellDict EXCEPT !.a = Num(9), !.b = Num(9), !.c = Num(9),
                                           !.alpha = Num(90), !.beta = Num(90),
                                           !.gamma = Num(90)])

\* The shifts of the calls of getMatrixList: none, and the 26 of the supercell.
Shifts == {supercellShifts[k] : k \in 1..Len(supercellShifts)}

InitRecentre ==
  /\ opt = [type |-> "ccdcmol2", firstModelOnly |-> FALSE, asTrajectory |-> FALSE]
  /\ p = InitLocals
  /\ s \in {[InitStructure EXCEPT !.unitcell = <<SomeUnitcell>>, !.center = centre] :
              centre \in Centres}
  /\ lines = <<>>
  /\ doc = <<>>
  /\ consumed = 0
  /\ pc = "compile"
  /\ jsonData = NoJsonData
  /\ calls = <<>>
  /\ structures = <<>>
  /\ build \in {[InitBuild EXCEPT !.operators = <<<<x, y, z>>>>] :
                  x \in Components, y \in Components, z \in Components}

\* const matrixList = getMatrixList(shift)
GetMatrixList(shift) ==
  /\ pc = "compiled"
  /\ build' = [build EXCEPT
                 !.shift = shift,
                 !.matrixList = getMatrixList(s.unitcell[1], build.symopDict, s.center,
                                              VectorFloor(s.center), shift)]
  /\ pc' = "listed"
  /\ UNCHANGED <<opt, p, s, lines, doc, consumed, jsonData, calls, structures>>

\* The re-centring of getMatrixList, applied with the same centre and shift
\* to the matrices it has given.
RecentreAgain ==
  /\ pc = "listed"
  /\ build' = [build EXCEPT
                 !.matrixList =
                    [k \in 1..Len(build.matrixList) |->
                       Conjugate(s.unitcell[1],
                                 Recentre(build.matrixList[k].frac, s.center,
                                          VectorFloor(s.center), build.shift))]]
  /\ pc' = "relisted"
  /\ UNCHANGED <<opt, p, s, lines, doc, consumed, jsonData, calls, structures>>

NextRecentre ==
  \/ SetSymmetryOperations
  \/ \E shift \in Shifts : GetMatrixList(shift)
  \/ RecentreAgain

SpecRecentre == InitRecentre /\ [][NextRecentre]_vars

-----------------------------------------------------------------------------
(* Cell records: the CRYSIN marker, then one line of six cell parameters,  *)
(* alone or followed by a space-group number and a setting.  The two       *)
(* options are off.                                                        *)

\* The ten decimal digits, in order.
DecimalDigits == <<"0", "1", "2", "3", "4", "5", "6", "7", "8", "9">>

\* The decimal digits of a natural number.
RECURSIVE DigitsOf(_)
DigitsOf(n) ==
  IF n < 10 THEN <<DecimalDigits[n + 1]>>
  ELSE DigitsOf(n \div 10) \o <<DecimalDigits[(n % 10) + 1]>>

\* "2 3 4 90 100 110"
CrysinLineSix == <<"2", " ", "3", " ", "4", " ", "9", "0", " ", "1", "0", "0", " ", "1", "1", "0">>

\* "2 3 4 90 100 110 <spaceGroup> <setting>"
CrysinLineOf(spaceGroup, setting) ==
  CrysinLineSix \o <<" ">> \o DigitsOf(spaceGroup) \o <<" ">> \o DigitsOf(setting)

\* The space-group numbers and the settings of the lines: those of the
\* table and of the aliases, and some beyond on either side.
MaxSpaceGroup == 240

MaxSetting == 7

CrysinLines ==
  {CrysinLineSix}
    \cup {CrysinLineOf(n, st) : n \in 0..MaxSpaceGroup, st \in 0..MaxSetting}

InitCrysin == Init /\ ~ opt.firstModelOnly /\ ~ opt.asTrajectory

NextCrysin ==
  \/ consumed = 0 /\ EachChunkOfLines(<<MarkerCrysin>>)
  \/ \E line \in CrysinLines : consumed = 1 /\ EachChunkOfLines(<<line>>)
  \/ EndOfLines

SpecCrysin == InitCrysin /\ [][NextCrysin]_vars

-----------------------------------------------------------------------------
(* Two parses, one after the other: each a parser of its own with its own  *)
(* structure, of either class, reading a document of its own in one chunk. *)
(* The two options are off.                                                *)

\* "5 6 7 80 90 100 1 1"
CrysinLineOther == <<"5", " ", "6", " ", "7", " ", "8", "0", " ", "9", "0", " ", "1", "0", "0", " ", "1", " ", "1">>

OwnedLines == {MarkerCrysin, CrysinLineFull, CrysinLineOther, TitleLine}

MaxOwnedLines == 2

InitOwned == InitCrysin

\* A parse that takes the cell parameters of the parse before it.
NewParseSharedCell ==
  /\ pc \in {"done", "thrown"}
  /\ structures = <<>>
  /\ structures' = <<s>>
  /\ \E type \in {"mol2", "ccdcmol2"} : opt' = [opt EXCEPT !.type = type]
  /\ p' = [InitLocals EXCEPT !.unitcellDict = p.unitcellDict]
  /\ s' = InitStructure
  /\ lines' = <<>>
  /\ doc' = <<>>
  /\ consumed' = 0
  /\ pc' = "scan"
  /\ UNCHANGED <<jsonData, calls, build>>

\* The beginning of _parse in a new parser, after the parse of another has
\* ended: its locals, unitcellDict among them, and its structure are new.
NewParse ==
  /\ pc \in {"done", "thrown"}
  /\ structures = <<>>
  /\ structures' = <<s>>
  /\ \E type \in {"mol2", "ccdcmol2"} : opt' = [opt EXCEPT !.type = type]
  /\ p' = InitLocals
  /\ s' = InitStructure
  /\ lines' = <<>>
  /\ doc' = <<>>
  /\ consumed' = 0
  /\ pc' = "scan"
  /\ UNCHANGED <<jsonData, calls, build>>

NextOwned ==
  \/ \E n \in 1..MaxOwnedLines :
       \E chunk \in [1..n -> OwnedLines] : consumed = 0 /\ EachChunkOfLines(chunk)
  \/ EndOfLines
  \/ NewParse

SpecOwned == InitOwned /\ [][NextOwned]_vars

-----------------------------------------------------------------------------
(* What the claims speak of *)

\* The first character of a line that is not white space; "" for a blank line.
RECURSIVE FirstNonBlank(_)
FirstNonBlank(l) ==
  IF l = <<>> THEN ""
  ELSE IF l[1] \in {" ", "\t"} THEN FirstNonBlank(Tail(l))
  ELSE l[1]

IsBlankOrComment(l) == FirstNonBlank(l) \in {"", "#"}

BeginsWithAt(l) == FirstNonBlank(l) = "@"

IsDataLine(l) == ~ IsBlankOrComment(l) /\ ~ BeginsWithAt(l)

\* The record type a line beginning with '@' stands for.
RecordTypeOfMarker(l) ==
  CASE trim(l) = MarkerMolecule -> moleculeRecordType
    [] trim(l) = MarkerAtom -> atomRecordType
    [] trim(l) = MarkerBond -> bondRecordType
    [] trim(l) = MarkerCrysin -> crysinRecordType
    [] OTHER -> noRecordType

\* This step read exactly one line.
OneLineRead == pc = "scan" /\ consumed' = consumed + 1 /\ Len(lines') = 1

\* The step left what the scan produces as it was: the atom store, the bond
\* store, the frames, the cell parameters, the title and the id.
ResultsUnchanged == s' = s /\ p'.unitcellDict = p.unitcellDict

-----------------------------------------------------------------------------
(* C1: the record type is the one of the most recent line that begins with *)
(* '@' (NONE for a marker that is none of the four): a line beginning with *)
(* '@' sets it, every other line keeps it; and while it is NONE a line     *)
(* that is no marker leaves the atom store, the bond store, the frames,    *)
(* the cell parameters and the title and id unchanged.                     *)
C1_RecordTypeFollowsMarker ==
  [][OneLineRead =>
       LET l == lines'[1]
       IN  /\ BeginsWithAt(l) => p'.currentRecordType = RecordTypeOfMarker(l)
           /\ ~ BeginsWithAt(l) => p'.currentRecordType = p.currentRecordType
           /\ (~ BeginsWithAt(l) /\ p.currentRecordType = noRecordType) => ResultsUnchanged]_vars

\* An atom line read after an unknown marker put an end to an ATOM block.
C1_Witness ==
  /\ pc = "scan"
  /\ p.currentRecordType = noRecordType
  /\ lines = <<AtomLineShort>>
  /\ s.atomStore.count = 1

(* C2: a blank line, or a line whose first non-blank character is '#',     *)
(* changes nothing in any scanner state: not the record type, the header   *)
(* line counter, the model index, the atom-index base, the stores, the     *)
(* frames, the cell parameters, the title or the id.                       *)
C2_SkippedLineChangesNothing ==
  [][(OneLineRead /\ IsBlankOrComment(lines'[1])) => (p' = p /\ s' = s /\ pc' = pc)]_vars

\* A comment line read inside an ATOM block that holds an atom.
C2_Witness ==
  /\ pc = "scan"
  /\ lines = <<CommentLine>>
  /\ p.currentRecordType = atomRecordType
  /\ s.atomStore.count = 1

(* C3: however the lines are cut into chunks, scanning the chunks one      *)
(* after another gives the atom store, bond store, frames, cell parameters *)
(* and title/id that scanning all the lines as one chunk gives.            *)
C3_ChunkingIsInvisible ==
  LET whole == _parseChunkOfLines([p |-> InitLocals, s |-> InitStructure, thrown |-> FALSE],
                                  0, Len(doc), doc)
  IN  /\ s.atomStore = whole.s.atomStore
      /\ s.bondStore = whole.s.bondStore
      /\ s.frames = whole.s.frames
      /\ p.unitcellDict = whole.p.unitcellDict
      /\ s.title = whole.s.title
      /\ s.id = whole.s.id
      /\ (pc = "thrown") = whole.thrown

\* An atom line stored from a later chunk than the one that held its marker.
C3_Witness ==
  /\ pc = "scan"
  /\ Len(doc) > Len(lines)
  /\ lines = <<AtomLineShort>>
  /\ doc[Len(doc) - 1] = MarkerAtom
  /\ s.atomStore.count = 1

\* The six cell parameters of a record holding them.
SixOf(cell) == <<cell.a, cell.b, cell.c, cell.alpha, cell.beta, cell.gamma>>

\* The first six fields of a line, as numbers.
SixFieldsOf(l) == [k \in 1..6 |-> parseFloat(Field(split(trim(l)), k - 1))]

NoPolicy == ~ opt.firstModelOnly /\ ~ opt.asTrajectory

(* C4: with neither firstModelOnly nor asTrajectory, a scan that completes *)
(* leaves one atom row for every line read in ATOM state and has added one *)
(* bond for every line read in BOND state (lines that are neither skipped  *)
(* nor markers), and the unit cell holds the six values of the cell record *)
(* read last: every line read in ATOM state adds exactly one row, every    *)
(* line read in BOND state exactly one bond, no other line adds any, a     *)
(* line read in CRYSIN state sets the six cell parameters to its first six *)
(* fields, no other line changes them, and the end of the scan makes the   *)
(* unit cell of them.                                                      *)
C4_CountsAndCell ==
  [][NoPolicy =>
       /\ (OneLineRead /\ pc' = "scan") =>
            LET l == lines'[1]
                in(type) == IsDataLine(l) /\ p.currentRecordType = type
            IN  /\ s'.atomStore.count =
                     s.atomStore.count + (IF in(atomRecordType) THEN 1 ELSE 0)
                /\ Len(s'.atomStore.row) = s'.atomStore.count
                /\ s'.bondStore.count =
                     s.bondStore.count + (IF in(bondRecordType) THEN 1 ELSE 0)
                /\ Len(s'.bondStore.row) = s'.bondStore.count
                /\ SixOf(p'.unitcellDict) =
                     IF in(crysinRecordType) THEN SixFieldsOf(l) ELSE SixOf(p.unitcellDict)
       /\ (pc = "scan" /\ pc' = "done") =>
            /\ s'.atomStore = s.atomStore
            /\ s'.bondStore = s.bondStore
            /\ IF p.unitcellDict.a = undefined
               THEN s'.unitcell = <<>>
               ELSE /\ Len(s'.unitcell) = 1
                    /\ SixOf(s'.unitcell[1]) = SixOf(p.unitcellDict)]_vars

\* A completed scan of a cell record and an atom line.
C4_Witness ==
  /\ pc = "done"
  /\ NoPolicy
  /\ s.atomStore.count = 1
  /\ Len(s.unitcell) = 1
  /\ SixOf(s.unitcell[1]) = <<Num(2), Num(3), Num(4), Num(90), Num(100), Num(110)>>

\* The rows of a store, by number.
Rows(store) == 1..Len(store.row)

\* The atoms that were in the store when the current model began: the rows
\* of the models before it.
AtomsOfEarlierModels ==
  Cardinality({i \in Rows(s.atomStore) : s.atomStore.row[i].modelindex < p.modelIdx})

\* This step read one line in BOND state and stored a bond for it.
BondLineStored ==
  /\ OneLineRead
  /\ IsDataLine(lines'[1])
  /\ p.currentRecordType = bondRecordType
  /\ s'.bondStore.count = s.bondStore.count + 1

\* The bond a step stored.
StoredBond == s'.bondStore.row[Len(s'.bondStore.row)]

\* The document read so far begins with a MOLECULE marker: every line after
\* it is a line of a model.
BeginsWithModel == doc # <<>> /\ doc[1] = MarkerMolecule

(* C5: the endpoints of the bond stored for a bond line with the serials   *)
(* s1 and s2 are s1 - 1 + base and s2 - 1 + base, base being the number of *)
(* atoms in the store when the current model began, whatever the order of  *)
(* the MOLECULE, ATOM and BOND blocks.                                     *)
C5_BondEndpointsFromModelStart ==
  [][(BondLineStored /\ BeginsWithModel) =>
       LET ls == split(trim(lines'[1]))
           base == AtomsOfEarlierModels
       IN  /\ StoredBond.atomIndex1 = Plus(Minus(parseInt(Field(ls, 1)), 1), base)
           /\ StoredBond.atomIndex2 = Plus(Minus(parseInt(Field(ls, 2)), 1), base)]_vars

\* An index of an atom in the store.
RefersToAtom(index) == index \in 0..(s.atomStore.count - 1)

(* C6: a bond line one of whose serials, the offset of the model added,    *)
(* refers to no atom in the store adds no bond and leaves the stored bonds *)
(* as they are, so that every bond stored references two atoms that were   *)
(* in the store when its line was read.                                    *)
C6_BondOutOfRangeAddsNoBond ==
  [][(OneLineRead /\ IsDataLine(lines'[1]) /\ p.currentRecordType = bondRecordType) =>
       LET ls == split(trim(lines'[1]))
           index1 == BondAtomIndex(Field(ls, 1), p.modelAtomIdxStart)
           index2 == BondAtomIndex(Field(ls, 2), p.modelAtomIdxStart)
       IN  /\ ~ (RefersToAtom(index1) /\ RefersToAtom(index2)) => s'.bondStore = s.bondStore
           /\ s'.bondStore.count > s.bondStore.count =>
                RefersToAtom(StoredBond.atomIndex1) /\ RefersToAtom(StoredBond.atomIndex2)]_vars

(* C7: with firstModelOnly, no line of a model after the first changes the *)
(* atom store or the bond store, so that the stores hold what the lines of *)
(* the first model gave; the markers of the later models still set the     *)
(* record type, and the MOLECULE marker still counts the model.            *)
C7_FirstModelOnly ==
  [][(opt.firstModelOnly /\ OneLineRead) =>
       LET l == lines'[1]
       IN  /\ p.modelIdx > 0 => s'.atomStore = s.atomStore /\ s'.bondStore = s.bondStore
           /\ BeginsWithAt(l) =>
                /\ p'.currentRecordType = RecordTypeOfMarker(l)
                /\ p'.modelIdx = p.modelIdx + (IF trim(l) = MarkerMolecule THEN 1 ELSE 0)
                /\ s'.atomStore = s.atomStore /\ s'.bondStore = s.bondStore]_vars

\* An atom line of the second model was read, the first model's atom stored.
C7_Witness ==
  /\ opt.firstModelOnly
  /\ pc = "scan"
  /\ p.modelIdx = 1
  /\ p.currentRecordType = atomRecordType
  /\ lines = <<AtomLineShort>>
  /\ s.atomStore.count = 1

\* Where the MOLECULE and the ATOM markers of the document stand.
MoleculeMarkers == {i \in 1..Len(doc) : doc[i] = MarkerMolecule}

AtomMarkers == {i \in 1..Len(doc) : doc[i] = MarkerAtom}

\* The ATOM markers of the model that the MOLECULE marker at m begins.
AtomBlocksOf(m) ==
  {a \in AtomMarkers : a > m /\ \A m2 \in MoleculeMarkers : m2 > m => a < m2}

\* The document is made of models, each with one ATOM block.
OneAtomBlockPerModel ==
  /\ MoleculeMarkers # {}
  /\ \A a \in AtomMarkers : \E m \in MoleculeMarkers : m < a
  /\ \A m \in MoleculeMarkers : Cardinality(AtomBlocksOf(m)) = 1

\* The scan of a trajectory of models with one ATOM block each has ended.
TrajectoryScanned == pc = "done" /\ opt.asTrajectory /\ OneAtomBlockPerModel

(* C8, as stated: with asTrajectory, a document of K models, each with one *)
(* ATOM block, leaves K - 1 frames after the scan.                         *)
C8_OneFramePerLaterModel ==
  TrajectoryScanned => Len(s.frames) = Cardinality(MoleculeMarkers) - 1

(* C8, amended: with asTrajectory, a document of K models, each with one   *)
(* ATOM block, leaves K frames after the scan, one for every model, the    *)
(* first included.                                                         *)
C8_OneFramePerModel ==
  TrajectoryScanned => Len(s.frames) = Cardinality(MoleculeMarkers)

\* A trajectory of two models was scanned.
C8_Witness ==
  /\ TrajectoryScanned
  /\ Cardinality(MoleculeMarkers) = 2
  /\ Len(s.frames) = 2

\* Every MOLECULE marker of the document is followed by its two header
\* lines, the title and the counts, as far as the document goes.
HeadersComplete ==
  \A m \in MoleculeMarkers :
    \A k \in {m + 1, m + 2} : k <= Len(doc) => IsDataLine(doc[k])

(* C9: with asTrajectory, at every point of the scan of a document of      *)
(* models with their header lines, all frames have one length, that of the *)
(* frame of the first model, whatever the later headers declare.           *)
C9_FramesOfOneLength ==
  (opt.asTrajectory /\ pc # "thrown" /\ BeginsWithModel /\ HeadersComplete) =>
    \A i \in 1..Len(s.frames) : Len(s.frames[i]) = Len(s.frames[1])

\* The stores hold rows of the first model only (of no model after it).
OnlyFirstModelStored(store) ==
  \A i \in Rows(store) : store.row[i].modelindex <= 0

(* C10: with asTrajectory, no line of a model with index > 0 changes the   *)
(* atom store or the bond store; a line of the first model read in ATOM    *)
(* state adds one atom row, one read in BOND state one bond, so that the   *)
(* stores hold the atom lines and the bonds of the first model.            *)
C10_TrajectoryKeepsStores ==
  [][(opt.asTrajectory /\ OneLineRead) =>
       LET l == lines'[1]
           in(type) == IsDataLine(l) /\ p.currentRecordType = type /\ pc' = "scan"
                       /\ ~ (opt.firstModelOnly /\ p.modelIdx > 0)
       IN  /\ p.modelIdx > 0 => s'.atomStore = s.atomStore /\ s'.bondStore = s.bondStore
           /\ p.modelIdx <= 0 =>
                /\ s'.atomStore.count =
                     s.atomStore.count + (IF in(atomRecordType) THEN 1 ELSE 0)
                /\ s'.bondStore.count =
                     s.bondStore.count + (IF in(bondRecordType) THEN 1 ELSE 0)
           /\ OnlyFirstModelStored(s'.atomStore)
           /\ Len(s'.atomStore.row) = s'.atomStore.count]_vars

\* A bond line of the second model was read, the first model's atom stored.
C10_Witness ==
  /\ opt.asTrajectory
  /\ pc = "scan"
  /\ p.modelIdx = 1
  /\ p.currentRecordType = bondRecordType
  /\ lines = <<BondLineAr>>
  /\ s.atomStore.count = 1
  /\ s.bondStore.count = 0

(* C11: the unit cell of the structure is defined only if all six scalars  *)
(* were read from a cell record: a cell record with fewer than six numeric *)
(* fields leaves it undefined, so that a unit cell that is defined holds   *)
(* six numbers.                                                            *)
C11_UnitcellOnlyFromSixScalars ==
  s.unitcell # <<>> => \A k \in 1..6 : IsNumber(SixOf(s.unitcell[1])[k])

\* CCDCMol2Parser has scanned the text and set the unit cell.
EnvelopeScanned == opt.type = "ccdcmol2" /\ pc \in {"done", "end"}

\* No cell dimensions are at hand: none in the envelope, no cell record read.
NoCellDimensions == jsonData.cellDimensions = <<>> /\ p.unitcellDict.a = undefined

(* C12: without cell dimensions the parse goes on to its end without an    *)
(* error, the unit cell is undefined and no assembly is built: whatever    *)
(* the operator strings of the envelope, every step after the scan leaves  *)
(* the assemblies of the structure as they were, UNITCELL and SUPERCELL    *)
(* included, and raises nothing.                                           *)
C12_NoCellNoAssemblies ==
  [][(EnvelopeScanned /\ NoCellDimensions /\ jsonData.spacegroupOperators # <<>>) =>
       /\ s.unitcell = <<>>
       /\ s'.unitcell = <<>>
       /\ s'.biomolDict = s.biomolDict
       /\ pc' \in {"done", "end"}
       /\ (Len(calls) = Len(PostParseCalls) => pc' = "end")]_vars

\* A parse without cell dimensions has ended; the structure still holds the
\* UNITCELL assembly it had, and no SUPERCELL.
C12_Witness ==
  /\ EnvelopeScanned /\ NoCellDimensions
  /\ pc = "end"
  /\ jsonData.spacegroupOperators = <<OperatorsTwo>>
  /\ s.unitcell = <<>>
  /\ s.biomolDict.UNITCELL = <<Assembly("UNITCELL", <<IdentityMatrix>>)>>
  /\ s.biomolDict.SUPERCELL = <<>>

(* C13: for a document in the envelope the six dimensions of the unit cell *)
(* are those of the cell-dimension string of the envelope: with such a     *)
(* string the unit cell is defined, whether the text has a cell record or  *)
(* not, and holds the six numbers of the string.                           *)
C13_CellFromEnvelope ==
  (EnvelopeScanned /\ jsonData.cellDimensions # <<>>) =>
    /\ s.unitcell # <<>>
    /\ SixOf(s.unitcell[1]) = SixFieldsOf(jsonData.cellDimensions[1])

\* Where a collaborator was called.
CallsOf(name) == {i \in 1..Len(calls) : calls[i] = name}

\* Every call of b comes after a call of a.
CalledBefore(a, b) == \A j \in CallsOf(b) : \E i \in CallsOf(a) : i < j

\* The collaborators the order is about, and the two builders of assemblies.
Collaborators ==
  {"calculateChainnames", "calculateBondsWithin", "calculateBondsBetween",
   "assignResidueTypeBonds", "calculateSecondaryStructure"}

AssemblyBuilders == {"_buildUnitcellAssembly", "buildUnitcellAssembly"}

(* C14: the steps after the scan run in this order, each once: the chain   *)
(* names, the bonds within and between the models, the residue bonds, the  *)
(* secondary structure, and after them all the assemblies; no step runs    *)
(* before every line is scanned and the unit cell set, and at the end of a *)
(* parse each has run exactly once.                                        *)
C14_PostParseOrder ==
  /\ \A name \in Collaborators \cup AssemblyBuilders : Cardinality(CallsOf(name)) <= 1
  /\ CalledBefore("calculateChainnames", "calculateBondsWithin")
  /\ CalledBefore("calculateBondsWithin", "calculateBondsBetween")
  /\ CalledBefore("calculateBondsBetween", "assignResidueTypeBonds")
  /\ CalledBefore("assignResidueTypeBonds", "calculateSecondaryStructure")
  /\ \A builder \in AssemblyBuilders : CalledBefore("calculateSecondaryStructure", builder)
  /\ calls # <<>> =>
       /\ pc \in {"done", "end", "thrown"}
       /\ jsonData.mol2 # <<>> => doc = splitOn(jsonData.mol2[1], "\n")
  /\ pc = "end" =>
       /\ \A name \in Collaborators : Cardinality(CallsOf(name)) = 1
       /\ Cardinality(UNION {CallsOf(builder) : builder \in AssemblyBuilders}) = 1

\* A parse has ended, the assemblies built last of nine calls.
C14_Witness ==
  /\ pc = "end"
  /\ Len(calls) = 9
  /\ calls[9] = "_buildUnitcellAssembly"
  /\ s.biomolDict.SUPERCELL # <<>>

\* One operator was compiled: its components and its matrix.
OneCompiled == pc = "compiled" /\ Len(build.operators) = 1 /\ Len(build.symopDict) = 1

CompiledSymop == build.operators[1]

CompiledMatrix == build.symopDict[1].value

AxisLetters == {"X", "Y", "Z"}

\* The characters of a component are axis letters and signs only.
OnlyAxesAndSigns(elm) == \A k \in 1..Len(elm) : elm[k] \in AxisLetters \cup {"+", "-"}

\* How many axis letters a component has.
AxisCount(elm) == Cardinality({k \in 1..Len(elm) : elm[k] \in AxisLetters})

\* The row of a rotation block has one entry that is not zero, 1 or -1.
SignedUnitRow(row) ==
  /\ Cardinality({k \in 1..3 : row[k] # Whole(0)}) = 1
  /\ \A k \in 1..3 : row[k] \in {Whole(-1), Whole(0), Whole(1)}

\* The matrix has no translation and its three rows are signed unit rows.
SignedPermutation(me) ==
  /\ setFromMatrixPosition(me) = Vector3(Whole(0), Whole(0), Whole(0))
  /\ \A r \in 0..2 : SignedUnitRow(RotationRow(me, r))

(* C15, as stated: an operator of three components whose characters are    *)
(* only X, Y, Z, '+' and '-' compiles to a matrix without translation, of  *)
(* which every row of the rotation block has exactly one entry that is not *)
(* zero, 1 or -1.                                                          *)
C15_SignedPermutationOfAnyAxes ==
  (/\ OneCompiled
   /\ Len(CompiledSymop) = 3
   /\ \A r \in 1..3 : OnlyAxesAndSigns(CompiledSymop[r]) /\ AxisCount(CompiledSymop[r]) >= 1)
  => SignedPermutation(CompiledMatrix)

(* C15, amended: an operator of three components whose characters are only *)
(* X, Y, Z, '+' and '-', each component with exactly one axis letter,      *)
(* compiles to a matrix without translation, of which every row of the     *)
(* rotation block has exactly one entry that is not zero, 1 or -1.         *)
C15_SignedPermutationOfOneAxisEach ==
  (/\ OneCompiled
   /\ Len(CompiledSymop) = 3
   /\ \A r \in 1..3 : OnlyAxesAndSigns(CompiledSymop[r]) /\ AxisCount(CompiledSymop[r]) = 1)
  => SignedPermutation(CompiledMatrix)

\* "-Y,X,Z" was compiled to the rows (0 -1 0), (1 0 0), (0 0 1).
C15_Witness ==
  /\ OneCompiled
  /\ CompiledSymop = << <<"-", "Y">>, <<"X">>, <<"Z">> >>
  /\ RotationRow(CompiledMatrix, 0) = <<Whole(0), Whole(-1), Whole(0)>>
  /\ RotationRow(CompiledMatrix, 1) = <<Whole(1), Whole(0), Whole(0)>>
  /\ RotationRow(CompiledMatrix, 2) = <<Whole(0), Whole(0), Whole(1)>>

\* The operator "1/2+X,-Y,1/2-Z" was compiled.
HalvesCompiled ==
  /\ OneCompiled
  /\ jsonData.spacegroupOperators = <<OperatorsHalves>>

\* The diagonal of the rotation block.
RotationDiagonal(me) == <<me[1], me[6], me[11]>>

(* C16, as stated: "1/2+X,-Y,1/2-Z" compiles to the translation            *)
(* (1/2, 0, -1/2) and the rotation diagonal (1, -1, -1).                   *)
C16_HalvesWithNegativeTranslation ==
  HalvesCompiled =>
    /\ setFromMatrixPosition(CompiledMatrix) = Vector3(Rational(1, 2), Whole(0), Rational(-1, 2))
    /\ RotationDiagonal(CompiledMatrix) = <<Whole(1), Whole(-1), Whole(-1)>>

(* C16, amended: "1/2+X,-Y,1/2-Z" compiles to the translation              *)
(* (1/2, 0, 1/2) and the rotation diagonal (1, -1, -1): the sign before Z  *)
(* is the sign of the rotation entry, not of the translation.              *)
C16_HalvesCompiled ==
  HalvesCompiled =>
    /\ setFromMatrixPosition(CompiledMatrix) = Vector3(Rational(1, 2), Whole(0), Rational(1, 2))
    /\ RotationDiagonal(CompiledMatrix) = <<Whole(1), Whole(-1), Whole(-1)>>

C16_Witness ==
  /\ HalvesCompiled
  /\ CompiledSymop = << <<"1", "/", "2", "+", "X">>, <<"-", "Y">>, <<"1", "/", "2", "-", "Z">> >>
  /\ CompiledMatrix[15] = Rational(1, 2)

\* CCDCMol2Parser has built the assemblies of a structure with a unit cell.
AssembliesBuilt ==
  /\ opt.type = "ccdcmol2"
  /\ pc = "end"
  /\ s.unitcell # <<>>

\* The transforms of an assembly of the structure.
TransformsOf(assembly) == assembly[1].partList[1].matrixList

\* The distinct operator strings of the list given to the builder.
DistinctOperatorStrings == {toString(build.operators[k]) : k \in 1..Len(build.operators)}

\* The transforms of the NCS, the identity included; 1 without an NCS assembly.
NCSPartCount ==
  IF s.biomolDict.NCS # <<>>
  THEN 1 + Len(s.biomolDict.NCS[1].partList[1].matrixList)
  ELSE 1

(* C17: the UNITCELL assembly holds as many transforms as there are        *)
(* distinct operator strings in the list, times the number of NCS          *)
(* transforms (the identity included) when the structure has an NCS        *)
(* assembly, and the SUPERCELL assembly 27 times as many.                  *)
C17_TransformCounts ==
  AssembliesBuilt =>
    /\ Len(TransformsOf(s.biomolDict.UNITCELL))
         = Cardinality(DistinctOperatorStrings) * NCSPartCount
    /\ Len(TransformsOf(s.biomolDict.SUPERCELL))
         = 27 * Cardinality(DistinctOperatorStrings) * NCSPartCount

\* Three operators, two of them distinct, and an NCS of two matrices: 6 and
\* 162 transforms.
C17_Witness ==
  /\ AssembliesBuilt
  /\ jsonData.spacegroupOperators = <<OperatorsRepeated>>
  /\ NCSPartCount = 3
  /\ Len(TransformsOf(s.biomolDict.UNITCELL)) = 6
  /\ Len(TransformsOf(s.biomolDict.SUPERCELL)) = 162

\* The getMatrixList of one operator has run.
OneListed == pc \in {"listed", "relisted"} /\ Len(build.matrixList) = 1

\* The raw matrix of the operator and the re-centred one, in fractional
\* coordinates.
RawMatrix == build.symopDict[1].value

RecentredMatrix == build.matrixList[1].frac

\* The shift of the call: zero for none.
ShiftVector ==
  IF build.shift = <<>> THEN Vector3(Whole(0), Whole(0), Whole(0)) ELSE build.shift[1]

\* The image of the point v under the matrix: rotation block and translation.
ImageOf(me, v) ==
  [r \in 1..3 |->
     RatAdd(RatAdd(RatMul(RotationRow(me, r - 1)[1], v[1]),
                   RatAdd(RatMul(RotationRow(me, r - 1)[2], v[2]),
                          RatMul(RotationRow(me, r - 1)[3], v[3]))),
            setFromMatrixPosition(me)[r])]

(* C18: the re-centred operator keeps the rotation block of the raw        *)
(* operator, its translation is the raw translation - floor(Op(centre))    *)
(* + floor(centre) + shift, and it maps the centre into the cell           *)
(* floor(centre) + shift.                                                  *)
C18_RecentredOperator ==
  OneListed =>
    LET c == s.center
        cell == [k \in 1..3 |-> RatAdd(RatFloor(c[k]), ShiftVector[k])]
    IN  /\ \A r \in 0..2 : RotationRow(RecentredMatrix, r) = RotationRow(RawMatrix, r)
        /\ \A k \in 1..3 :
             setFromMatrixPosition(RecentredMatrix)[k]
               = RatAdd(RatSub(setFromMatrixPosition(RawMatrix)[k],
                               RatFloor(ImageOf(RawMatrix, c)[k])),
                        cell[k])
        /\ \A k \in 1..3 : RatFloor(ImageOf(RecentredMatrix, c)[k]) = cell[k]

\* "2/3-X,X-Y,1/2-Z" about the centre (1/2, -1/4, 7/3), shift (1, -1, 0):
\* the translation (2/3, 0, 1/2) has become (1, -1, 4).
C18_Witness ==
  /\ pc = "listed"
  /\ build.operators = << << <<"2", "/", "3", "-", "X">>, <<"X", "-", "Y">>,
                             <<"1", "/", "2", "-", "Z">> >> >>
  /\ s.center = Vector3(Rational(1, 2), Rational(-1, 4), Rational(7, 3))
  /\ build.shift = Shift(1, -1, 0)
  /\ setFromMatrixPosition(RawMatrix) = Vector3(Rational(2, 3), Whole(0), Rational(1, 2))
  /\ setFromMatrixPosition(RecentredMatrix) # setFromMatrixPosition(RawMatrix)

(* C19: re-centring is idempotent: the re-centring with the centre and the *)
(* shift of a list, applied to the operators of the list, which it has     *)
(* re-centred already, gives the same operators.                           *)
C19_RecentringIdempotent ==
  [][(pc = "listed" /\ pc' = "relisted") => build'.matrixList = build.matrixList]_vars

\* An operator moved by the re-centring was re-centred once more.
C19_Witness ==
  /\ pc = "relisted"
  /\ Len(build.matrixList) = 1
  /\ build.shift = Shift(-1, 1, 1)
  /\ s.center = Vector3(Rational(-5, 4), Whole(1), Rational(1, 2))
  /\ setFromMatrixPosition(RecentredMatrix) # setFromMatrixPosition(RawMatrix)

\* The operators of the list given to the builder, each at its first place.
DistinctOperators ==
  SelectSeq([k \in 1..Len(build.operators) |-> [k |-> k, symop |-> build.operators[k]]],
            LAMBDA e : \A j \in 1..(e.k - 1) : toString(build.operators[j]) # toString(e.symop))

\* The transform of the operator symop for the shift, as the builder makes it.
TransformOf(symop, shift) ==
  Conjugate(s.unitcell[1],
            Recentre(CompileSymop(symop), s.center, VectorFloor(s.center), shift))

(* C20: the transforms of an assembly are in a fixed order: within the     *)
(* block of every shift they follow the order in which the distinct        *)
(* operator strings first occur in the operator list, never re-sorted      *)
(* (stated for a structure without NCS).                                   *)
C20_OperatorOrderKept ==
  (AssembliesBuilt /\ s.biomolDict.NCS = <<>>) =>
    LET n == Len(DistinctOperators)
    IN  /\ TransformsOf(s.biomolDict.UNITCELL)
             = [k \in 1..n |-> TransformOf(DistinctOperators[k].symop, <<>>)]
        /\ TransformsOf(s.biomolDict.SUPERCELL)
             = [i \in 1..(27 * n) |->
                  TransformOf(DistinctOperators[((i - 1) % n) + 1].symop,
                              supercellShifts[((i - 1) \div n) + 1])]

\* A line of a cell record was read by Mol2Parser, right after the marker.
CrysinLineRead ==
  /\ opt.type = "mol2"
  /\ consumed = 2
  /\ doc[1] = MarkerCrysin
  /\ lines = <<doc[2]>>

\* The number a string of decimal digits writes.
RECURSIVE NumberOf(_)
NumberOf(ds) ==
  IF ds = <<>> THEN 0
  ELSE 10 * NumberOf(SubSeq(ds, 1, Len(ds) - 1))
       + (CHOOSE d \in 0..9 : DecimalDigits[d + 1] = ds[Len(ds)])

\* What follows the six cell parameters on the line read: nothing, or the
\* space-group number and the setting.
AfterSix == SubSeq(doc[2], Len(CrysinLineSix) + 2, Len(doc[2]))

SpaceAt == CHOOSE k \in 1..Len(AfterSix) : AfterSix[k] = " "

SpaceGroupRead == NumberOf(SubSeq(AfterSix, 1, SpaceAt - 1))

SettingRead == NumberOf(SubSeq(AfterSix, SpaceAt + 1, Len(AfterSix)))

\* The line read misses the table: it has six fields only, or a number or
\* a setting outside the table (after the aliases), or names an empty slot.
LookupMiss ==
  \/ doc[2] = CrysinLineSix
  \/ /\ doc[2] # CrysinLineSix
     /\ LET n  == SpaceGroupRead
            st == SettingRead
        IN  \/ n \notin 1..238
            \/ st \notin 1..6
            \/ n \in 231..238 /\ st # 1
            \/ n \in 1..230 /\ spaceGroupLookup[n][st] = ""

\* The six cell parameters of the lines of this scan: 2 3 4 90 100 110.
SixScalarsStored ==
  /\ p.unitcellDict.a = Num(2)
  /\ p.unitcellDict.b = Num(3)
  /\ p.unitcellDict.c = Num(4)
  /\ p.unitcellDict.alpha = Num(90)
  /\ p.unitcellDict.beta = Num(100)
  /\ p.unitcellDict.gamma = Num(110)

(* C21: a space-group lookup miss is never fatal: after a cell record of   *)
(* six fields only, or whose number or setting is outside the table, or    *)
(* that names an empty slot of the table, the scan goes on, the space      *)
(* group is undefined and the six cell scalars are stored.                 *)
C21_LookupMissNotFatal ==
  (CrysinLineRead /\ LookupMiss) =>
    /\ pc = "scan"
    /\ p.unitcellDict.spacegroup = undefinedString
    /\ SixScalarsStored

\* The number of fields of a line: the runs of characters that are no
\* white space.
FieldCount(l) ==
  Cardinality({k \in 1..Len(l) :
                 /\ l[k] \notin {" ", "\t"}
                 /\ (k = 1 \/ l[k - 1] \in {" ", "\t"})})

(* C22: an atom line of fewer than the six required fields is skipped: a   *)
(* line of fewer than six fields read in ATOM state adds no atom row,      *)
(* leaves the atom store and the bond store as they are, and the scan goes *)
(* on with the next line.                                                  *)
C22_ShortAtomLineSkipped ==
  [][(/\ OneLineRead
      /\ IsDataLine(lines'[1])
      /\ p.currentRecordType = atomRecordType
      /\ FieldCount(lines'[1]) < 6) =>
       /\ pc' = "scan"
       /\ s'.atomStore = s.atomStore
       /\ s'.bondStore = s.bondStore]_vars

(* C23: a bond line, whatever its order token, does not end the scan, and  *)
(* every bond order that reaches the bond store is an integer in 0..3: the *)
(* order of the table for the tokens 1, 2, 3, am, ar, du, un, nc, and no   *)
(* value that is not an order for any other token.                         *)
C23_StoredBondOrdersInRange ==
  [][BondLineStored => (pc' = "scan" /\ StoredBond.bondOrder \in 0..3)]_vars

\* The transforms of an assembly that were made of the operators alone:
\* with an NCS assembly, those composed with the identity, the first of
\* every NCSPartCount.
SymmetryTransformsOf(assembly) ==
  LET list == TransformsOf(assembly)
  IN  [k \in 1..(Len(list) \div NCSPartCount) |-> list[(k - 1) * NCSPartCount + 1]]

\* The translation of a transform, in fractional coordinates.
PositionOf(transform) == setFromMatrixPosition(transform.frac)

\* The 27 vectors with coordinates -1, 0, 1.
NeighbourCells ==
  {Vector3(Whole(x), Whole(y), Whole(z)) : x \in -1..1, y \in -1..1, z \in -1..1}

(* C24: the SUPERCELL assembly is made of 27 blocks, each the transforms   *)
(* of the UNITCELL assembly moved, all of them alike, by one vector; the   *)
(* 27 vectors are the elements of {-1,0,1}^3, each used once; the UNITCELL *)
(* assembly uses the zero shift: every operator keeps the image of the     *)
(* centre in the cell of the centre.                                       *)
C24_TwentySevenShifts ==
  AssembliesBuilt =>
    LET unit  == SymmetryTransformsOf(s.biomolDict.UNITCELL)
        super == SymmetryTransformsOf(s.biomolDict.SUPERCELL)
        n     == Len(unit)
        shiftOf(i) == VectorSub(PositionOf(super[(i - 1) * n + 1]), PositionOf(unit[1]))
    IN  /\ n > 0
        /\ Len(super) = 27 * n
        /\ \A i \in 1..27 : \A k \in 1..n :
             super[(i - 1) * n + k]
               = [unit[k] EXCEPT !.frac = setPosition(@, VectorAdd(PositionOf(unit[k]),
                                                                  shiftOf(i)))]
        /\ {shiftOf(i) : i \in 1..27} = NeighbourCells
        /\ \A k \in 1..n :
             \A r \in 1..3 : RatFloor(ImageOf(unit[k].frac, s.center)[r]) = RatFloor(s.center[r])

\* Two operators about a centre outside the cell at the origin: 54
\* transforms, the second block moved by (0, 1, 0).
C24_Witness ==
  /\ AssembliesBuilt
  /\ s.biomolDict.NCS = <<>>
  /\ jsonData.spacegroupOperators = <<OperatorsTwo>>
  /\ s.center = Vector3(Rational(-5, 4), Whole(1), Rational(1, 2))
  /\ Len(TransformsOf(s.biomolDict.SUPERCELL)) = 54
  /\ PositionOf(TransformsOf(s.biomolDict.SUPERCELL)[4])
       = VectorAdd(PositionOf(TransformsOf(s.biomolDict.UNITCELL)[2]),
                   Vector3(Whole(0), Whole(1), Whole(0)))

\* The translation that a component has by the rule of C25, from the
\* translation t: a digit before any '/' is the new translation, a digit
\* after a '/' divides it, every other character leaves it.
RECURSIVE TranslationByDigits(_, _, _)
TranslationByDigits(elm, t, denominator) ==
  IF elm = <<>> THEN t
  ELSE LET c == Head(elm)
       IN  IF c = "/" THEN TranslationByDigits(Tail(elm), t, TRUE)
           ELSE IF \E d \in 0..9 : DecimalDigits[d + 1] = c
           THEN LET d == CHOOSE d \in 0..9 : DecimalDigits[d + 1] = c
                IN  TranslationByDigits(Tail(elm),
                                        IF denominator THEN Rational(t.n, t.d * d)
                                        ELSE Whole(d),
                                        denominator)
           ELSE TranslationByDigits(Tail(elm), t, denominator)

\* No "0" of the component stands after a '/': nothing is divided by zero.
ZeroNeverDivides(elm) ==
  \A j \in 1..Len(elm) : \A k \in 1..(j - 1) : ~ (elm[k] = "/" /\ elm[j] = "0")

(* C25: in the component of an operator every decimal digit, 0 through 9,  *)
(* met before any '/' overwrites the translation of the row with the       *)
(* digit, every digit met after a '/' divides the translation by it, and   *)
(* every other character leaves it as it is; a row with no digit keeps the *)
(* translation 0 (stated for components where no 0 follows a '/').         *)
C25_EveryDigitCounts ==
  (OneCompiled /\ Len(CompiledSymop) = 1 /\ ZeroNeverDivides(CompiledSymop[1])) =>
    CompiledMatrix[13] = TranslationByDigits(CompiledSymop[1], Whole(0), FALSE)

\* The place of the last marker of the document read so far; 0 for none.
LastMarker ==
  LET at == {i \in 1..Len(doc) : BeginsWithAt(doc[i])}
  IN  IF at = {} THEN 0 ELSE CHOOSE i \in at : \A j \in at : j <= i

(* C26: in trajectory mode the frame of a model holds the coordinates of   *)
(* the atom lines of the model in file order: the k-th atom line after the *)
(* ATOM marker (0-based) has its x, y, z at the positions 3k, 3k + 1 and   *)
(* 3k + 2 of the newest frame, also when the model has more atom lines     *)
(* than its header declared (documents of models with their header lines). *)
C26_FrameHoldsAtomLines ==
  [][(/\ OneLineRead
      /\ BeginsWithModel
      /\ HeadersComplete
      /\ IsDataLine(lines'[1])
      /\ p.currentRecordType = atomRecordType) =>
       LET k     == Len(doc) - LastMarker
           frame == s'.frames[Len(s'.frames)]
           ls    == split(trim(lines'[1]))
       IN  /\ 3 * k + 3 <= Len(frame)
           /\ frame[3 * k + 1] = parseFloat(Field(ls, 2))
           /\ frame[3 * k + 2] = parseFloat(Field(ls, 3))
           /\ frame[3 * k + 3] = parseFloat(Field(ls, 4))]_vars

\* The places of the lines of the document that are read as cell records:
\* the data lines whose last marker before them is the CRYSIN marker.
CellRecords ==
  {i \in 1..Len(doc) :
     /\ IsDataLine(doc[i])
     /\ \E m \in 1..(i - 1) :
          /\ trim(doc[m]) = MarkerCrysin
          /\ \A j \in (m + 1)..(i - 1) : ~ BeginsWithAt(doc[j])}

\* The second of two parses has ended.
SecondParseDone == Len(structures) = 1 /\ pc = "done"

(* C27: the cell parameters are owned by one parse: after the second of    *)
(* two parses, of either parser, the unit cell of its structure is made of *)
(* the second document alone: undefined when the document has no cell      *)
(* record, whatever the first document had, and else the six values of the *)
(* last cell record of the document.                                       *)
C27_CellOwnedByOneParse ==
  SecondParseDone =>
    IF CellRecords = {} THEN s.unitcell = <<>>
    ELSE LET last == CHOOSE i \in CellRecords : \A j \in CellRecords : j <= i
         IN  /\ Len(s.unitcell) = 1
             /\ SixOf(s.unitcell[1]) = SixFieldsOf(doc[last])

\* The first document had a cell, the second has no cell record and ends
\* with the unit cell undefined.
C27_Witness ==
  /\ SecondParseDone
  /\ Len(structures[1].unitcell) = 1
  /\ doc # <<>>
  /\ CellRecords = {}
  /\ s.unitcell = <<>>

\* The pair that a space-group number above 230, given with the setting 1,
\* stands for.
AliasOf(n) ==
  CASE n = 231 -> <<14, 2>>
    [] n = 232 -> <<146, 1>>
    [] n = 233 -> <<148, 1>>
    [] n = 234 -> <<155, 1>>
    [] n = 235 -> <<160, 1>>
    [] n = 236 -> <<161, 1>>
    [] n = 237 -> <<166, 1>>
    [] n = 238 -> <<167, 1>>

\* A line with a space-group number and a setting was read as a cell record.
NumberedCrysinLineRead == CrysinLineRead /\ doc[2] # CrysinLineSix

(* C28: for a space-group number n in 231..238 given with the setting 1    *)
(* the lookup gives the table entry of the pair n stands for, 231 for      *)
(* (14, 2), 232 for 146, 233 for 148, 234 for 155, 235 for 160, 236 for    *)
(* 161, 237 for 166, 238 for 167 with the setting 1; for n in 1..230 and a *)
(* setting in 1..6 it gives the table entry at (n, setting).               *)
C28_LookupWithAliases ==
  NumberedCrysinLineRead =>
    LET n  == SpaceGroupRead
        st == SettingRead
    IN  /\ (n \in 231..238 /\ st = 1) =>
             /\ pc = "scan"
             /\ p.unitcellDict.spacegroup = spaceGroupLookup[AliasOf(n)[1]][AliasOf(n)[2]]
        /\ (n \in 1..230 /\ st \in 1..6) =>
             /\ pc = "scan"
             /\ p.unitcellDict.spacegroup = spaceGroupLookup[n][st]

\* The number 231 with the setting 1 was looked up: "P 21/a", the
\* entry at (14, 2).
C28_Witness ==
  /\ NumberedCrysinLineRead
  /\ SpaceGroupRead = 231
  /\ SettingRead = 1
  /\ p.unitcellDict.spacegroup = spaceGroupLookup[14][2]
  /\ p.unitcellDict.spacegroup # spaceGroupLookup[14][1]
  /\ p.unitcellDict.spacegroup # ""
====
